---- MODULE Spec2Model ----
(***************************************************************************)
(* A model of retopoflow/rftool_autofill/autofill_utils.py: the host mesh  *)
(* the tool edits, Side, ExpandedPattern, AutofillPatch and               *)
(* AutofillPatches, with the pattern-generation service as the            *)
(* environment, and of the stroke handlers of the tool in autofill.py.     *)
(*                                                                         *)
(* A handler is one action.  Its code is a composition of operators over   *)
(* a record w (the "world": every variable of the model as a field, plus   *)
(* exc, the exception in flight, and oom, set when the model's handle      *)
(* bounds are exhausted).  An operator that finds w.exc set does nothing:  *)
(* the statements after a raise are skipped, what was done before it      *)
(* stays.  Python's 0-based indices are kept for AutofillPatch.i and       *)
(* selected_patch_index; sequences are TLA+'s, 1-based.                    *)
(***************************************************************************)
EXTENDS Integers, Sequences, FiniteSets, TLC

VARIABLES
    bmverts,                \* the host mesh: handles of the live vertices
    co,                     \* vertex handle -> position (v.co), on one axis
    bmedges,                \* the host mesh: live edges, each a set {v0, v1}
    bmfaces,                \* the host mesh: face handle -> its vertex loop
    sides,                  \* Side objects: side id -> Side.verts
    current_sides,          \* AutofillPatches.current_sides (side ids)
    patches,                \* AutofillPatches.patches
    selected_patch_index,   \* AutofillPatches.selected_patch_index
    lastOp,                 \* the last call: its name and its outcome
    trace,                  \* what the last call did, in order
    changes,                \* how many change_subdivisions calls were made
    autofill,               \* the Autofill tool's own fields
    call,                   \* a call of a Side method or of a module function:
                            \* its arguments, as they were when it was made
    result                  \* what that call returned or raised

vars == <<bmverts, co, bmedges, bmfaces, sides, current_sides, patches,
          selected_patch_index, lastOp, trace, changes, autofill, call, result>>

----------------------------------------------------------------------------
(* Bounds of the model *)

MaxVert == 9
MaxFace == 3
MaxSides == 4
MaxPatches == 1
MaxSideLen == 4
MaxVariants == 2
MaxInterior == 1
MaxChanges == 1
MaxPoints == 4
MaxStops == 2
FractionDen == 2
Far == 1000000
GraphVerts == 6
MaxEdges == 7
Rotations == 2
MergeVerts == 4
WalkVerts == 4
MaxToEdges == 2
MaxMergeLen == 3
EdgeVerts == 4
MaxSetEdges == 4

\* strokes drawn across patches
MaxChords == 1

\* patches drawn next to each other
MaxNeighbours == 2

\* where the corners the strokes snap to lie: corner 4 lies on corner 3
CornerCo == <<0, 60, 120, 120>>

NCorners == Len(CornerCo)

VertIds == 1..MaxVert
FaceIds == 1..MaxFace

\* restroke's tolerance 1.000001, as the fraction TolNum / TolDen
TolNum == 1000001
TolDen == 1000000

NoExc == "none"

\* no call of a Side method or of a module function is under study
NoCall == [fn |-> "none"]

\* the call was not made yet
Pending == [done |-> FALSE]

\* the call returned value, or raised exc
Returned(value, exc) == [done |-> TRUE, value |-> value, exc |-> exc]

----------------------------------------------------------------------------
(* Python lists *)

Min(S) == CHOOSE x \in S : \A y \in S : x <= y

Range(s) == {s[i] : i \in 1..Len(s)}

\* s[::-1]
Reversed(s) == [i \in 1..Len(s) |-> s[Len(s) + 1 - i]]

\* s[1:-1]
Inner(s) == IF Len(s) <= 2 THEN <<>> ELSE SubSeq(s, 2, Len(s) - 1)

\* s without its element at (1-based) position k
RemoveAt(s, k) == SubSeq(s, 1, k - 1) \o SubSeq(s, k + 1, Len(s))

RECURSIVE SumSeq(_)
SumSeq(s) == IF s = <<>> THEN 0 ELSE s[1] + SumSeq(Tail(s))

\* iter_pairs(s, wrap=False)
IterPairs(s) == [i \in 1..(IF Len(s) = 0 THEN 0 ELSE Len(s) - 1) |-> <<s[i], s[i + 1]>>]

Raise(w, e) == [w EXCEPT !.exc = e]

Event(w, e) == [w EXCEPT !.trace = Append(@, e)]

----------------------------------------------------------------------------
(* The host mesh (rfcontext): the mesh-editing primitives the tool consumes *)

\* the vertex handles some Side or some drawn pattern still holds
RefVerts(w) ==
    UNION {Range(w.sides[s]) : s \in DOMAIN w.sides}
    \cup UNION {UNION {Range(w.patches[p].expanded_patterns[k].drawn_verts) :
                         k \in 1..Len(w.patches[p].expanded_patterns)} :
                  p \in 1..Len(w.patches)}

\* the face handles some drawn pattern still holds
RefFaces(w) ==
    UNION {UNION {Range(w.patches[p].expanded_patterns[k].drawn_faces) :
                    k \in 1..Len(w.patches[p].expanded_patterns)} :
             p \in 1..Len(w.patches)}

\* rfcontext.new_vert_point(p): a fresh vertex at p
new_vert_point(w, p) ==
    LET free == {v \in VertIds : v \notin w.bmverts /\ v \notin RefVerts(w)}
    IN  IF free = {} THEN [w |-> [w EXCEPT !.oom = TRUE], v |-> 0]
        ELSE LET v == Min(free)
             IN  [w |-> [w EXCEPT !.bmverts = @ \cup {v}, !.co[v] = p], v |-> v]

\* [rfcontext.new_vert_point(p) for p in points]
RECURSIVE new_vert_points(_, _)
new_vert_points(w, points) ==
    IF points = <<>> THEN [w |-> w, vs |-> <<>>]
    ELSE LET a == new_vert_point(w, points[1])
             b == new_vert_points(a.w, Tail(points))
         IN  [w |-> b.w, vs |-> <<a.v>> \o b.vs]

\* rfcontext.new_edge([v0, v1]): fails on a duplicate edge
new_edge(w, v0, v1) ==
    IF {v0, v1} \in w.bmedges THEN Raise(w, "DuplicateEdge")
    ELSE [w EXCEPT !.bmedges = @ \cup {{v0, v1}}]

\* rfcontext.delete_verts(vs): cascades to the incident edges and faces
delete_verts(w, vs) ==
    LET gone == Range(vs) \cap w.bmverts
        keep == {f \in DOMAIN w.bmfaces : Range(w.bmfaces[f]) \cap gone = {}}
    IN  [w EXCEPT !.bmverts = @ \ gone,
                  !.co = [v \in DOMAIN @ |-> IF v \in gone THEN 0 ELSE @[v]],
                  !.bmedges = {e \in @ : e \cap gone = {}},
                  !.bmfaces = [f \in keep |-> @[f]]]

\* the edges around a vertex loop
LoopEdges(loop) ==
    {{loop[i], loop[(i % Len(loop)) + 1]} : i \in 1..Len(loop)}

\* rfcontext.new_face(verts): a fresh face, with the edges of its loop
new_face(w, loop) ==
    LET free == {f \in FaceIds : f \notin DOMAIN w.bmfaces /\ f \notin RefFaces(w)}
    IN  IF free = {} THEN [w |-> [w EXCEPT !.oom = TRUE], f |-> 0]
        ELSE LET f == Min(free)
             IN  [w |-> [w EXCEPT
                           !.bmfaces = [g \in DOMAIN @ \cup {f} |->
                                          IF g = f THEN loop ELSE @[g]],
                           !.bmedges = @ \cup {e \in LoopEdges(loop) : Cardinality(e) = 2}],
                  f |-> f]

\* rfcontext.delete_faces([face], del_empty_edges=True, del_empty_verts=False):
\* fails on a face that is gone; the edges left without a face go with it
delete_faces(w, f) ==
    IF f \notin DOMAIN w.bmfaces THEN Raise(w, "ReferenceError")
    ELSE LET rest == [g \in DOMAIN w.bmfaces \ {f} |-> w.bmfaces[g]]
             used == UNION {LoopEdges(rest[g]) : g \in DOMAIN rest}
         IN  [w EXCEPT !.bmfaces = rest,
                       !.bmedges = {e \in @ : e \in used \/ e \notin LoopEdges(w.bmfaces[f])}]

----------------------------------------------------------------------------
(* restroke: the Resampler.  percentages[k] is the fraction nums[k] / den,  *)
(* and every quantity the loop compares is kept as an exact fraction over   *)
(* den: stops[k] here is den times the code's stops[k].                    *)

AbsDiff(a, b) == IF a >= b THEN a - b ELSE b - a

\* t > 1.000001 for t = tnum / ld, that is tnum * TolDen > TolNum * ld,
\* computed without the large products
Exceeds(tnum, ld) == tnum - ld > ((TolNum - TolDen) * ld) \div TolDen

\* s0 + (s1 - s0) * t for t = tnum / (|s1 - s0| * den), rounded down to the
\* grid of positions
Lerp(s0, s1, tnum, den) ==
    IF s1 >= s0 THEN s0 + tnum \div den
    ELSE s0 - ((tnum + den - 1) \div den)

RECURSIVE restroke_loop(_, _, _, _, _, _, _, _)
restroke_loop(stroke, lens, stops, den, dist, istroke, istop, nstroke) ==
    IF ~(istroke + 1 < Len(stroke) /\ istop < Len(stops)) THEN nstroke
    ELSE IF lens[istroke + 1] <= 0
    THEN restroke_loop(stroke, lens, stops, den, dist, istroke + 1, istop, nstroke)
    ELSE LET l == lens[istroke + 1]
             \* t = tnum / (l * den)
             tnum == stops[istop + 1] - dist * den
         IN  IF tnum < 0
             THEN restroke_loop(stroke, lens, stops, den, dist, istroke, istop + 1, nstroke)
             ELSE IF Exceeds(tnum, l * den)
             THEN restroke_loop(stroke, lens, stops, den, dist + l, istroke + 1, istop, nstroke)
             ELSE LET s0 == stroke[istroke + 1]
                      s1 == stroke[istroke + 2]
                  IN  restroke_loop(stroke, lens, stops, den, dist, istroke, istop + 1,
                                    Append(nstroke, Lerp(s0, s1, tnum, den)))

restroke(stroke, nums, den) ==
    LET pairs == IterPairs(stroke)
        lens == [i \in 1..Len(pairs) |-> AbsDiff(pairs[i][1], pairs[i][2])]
        total_len == SumSeq(lens)
        clamped(p) == IF p < 0 THEN 0 ELSE IF p > den THEN den ELSE p
        stops == [k \in 1..Len(nums) |-> clamped(nums[k]) * total_len]
    IN  restroke_loop(stroke, lens, stops, den, 0, 0, 0, <<>>)

----------------------------------------------------------------------------
(* Side *)

\* Side.from_verts
from_verts(verts) == verts

\* Side.__eq__: the vertex sets match (a reversed side is the same side)
SideEq(w, s, t) == Range(w.sides[s]) = Range(w.sides[t])

\* the try block of Side.change_subdivisions: edges are made one after the
\* other, and the first failure ends the block
RECURSIVE try_new_edges(_, _)
try_new_edges(w, pairs) ==
    IF pairs = <<>> THEN w
    ELSE LET a == new_edge(w, pairs[1][1], pairs[1][2])
         IN  IF a.exc # NoExc THEN w
             ELSE try_new_edges(a, Tail(pairs))

\* Side.shares_endpoint_with(other), on the vertex lists of the two sides
shares_endpoint_with(self, other) ==
    \/ self[1] = other[1]
    \/ self[1] = other[Len(other)]
    \/ self[Len(self)] = other[1]
    \/ self[Len(self)] = other[Len(other)]

\* Side.merge(other) leaving out, of self, the vertex next to the shared one
\* too
Side_merge_Short(self, other) ==
    LET done(verts) == [self |-> verts, other |-> other, exc |-> NoExc]
    IN  IF self[1] = other[1] THEN done(Reversed(other) \o Tail(Tail(self)))
        ELSE IF self[1] = other[Len(other)] THEN done(other \o Tail(Tail(self)))
        ELSE IF self[Len(self)] = other[1]
        THEN done(SubSeq(self, 1, Len(self) - 2) \o other)
        ELSE IF self[Len(self)] = other[Len(other)]
        THEN done(SubSeq(self, 1, Len(self) - 2) \o Reversed(other))
        ELSE [self |-> self, other |-> other, exc |-> "AssertionError"]

\* Side.merge(other) returning where it asserts
Side_merge_Silent(self, other) ==
    LET done(verts) == [self |-> verts, other |-> other, exc |-> NoExc]
    IN  IF self[1] = other[1] THEN done(Reversed(other) \o Tail(self))
        ELSE IF self[1] = other[Len(other)] THEN done(other \o Tail(self))
        ELSE IF self[Len(self)] = other[1]
        THEN done(SubSeq(self, 1, Len(self) - 1) \o other)
        ELSE IF self[Len(self)] = other[Len(other)]
        THEN done(SubSeq(self, 1, Len(self) - 1) \o Reversed(other))
        ELSE done(self)

\* Side.merge(other), on the vertex lists of the two sides: the lists it
\* leaves, and what it raised
Side_merge(self, other) ==
    LET done(verts) == [self |-> verts, other |-> other, exc |-> NoExc]
    IN  IF self[1] = other[1] THEN done(Reversed(other) \o Tail(self))
        ELSE IF self[1] = other[Len(other)] THEN done(other \o Tail(self))
        ELSE IF self[Len(self)] = other[1]
        THEN done(SubSeq(self, 1, Len(self) - 1) \o other)
        ELSE IF self[Len(self)] = other[Len(other)]
        THEN done(SubSeq(self, 1, Len(self) - 1) \o Reversed(other))
        ELSE [self |-> self, other |-> other, exc |-> "AssertionError"]

\* Side.from_edges(edges), an edge being the pair <<verts[0], verts[1]>>
from_edges(edges) == [n \in 1..Len(edges) |-> edges[n][1]] \o <<edges[Len(edges)][2]>>

\* the pairs the two for loops of multiple_from_edges stop at, were they to
\* look at sides[i] and sides[i + 1] only
MergePairs_Neighbours(ss) ==
    {q \in (1..Len(ss)) \X (1..Len(ss)) :
       q[2] = q[1] + 1 /\ shares_endpoint_with(ss[q[1]], ss[q[2]])}

\* the pairs (i, j), i < j, the two for loops of multiple_from_edges can
\* stop at: sides[i] shares an endpoint with sides[j]
MergePairs(ss) ==
    {q \in (1..Len(ss)) \X (1..Len(ss)) :
       q[1] < q[2] /\ shares_endpoint_with(ss[q[1]], ss[q[2]])}

\* the while loop of multiple_from_edges: the first pair in the order of
\* the two for loops is merged, and the search starts again
RECURSIVE merge_loop(_)
merge_loop(ss) ==
    IF ~(Len(ss) > 1) \/ MergePairs(ss) = {} THEN [sides |-> ss, exc |-> NoExc]
    ELSE LET i == Min({q[1] : q \in MergePairs(ss)})
             j == Min({q[2] : q \in {r \in MergePairs(ss) : r[1] = i}})
             m == Side_merge(ss[i], ss[j])
         IN  IF m.exc # NoExc THEN [sides |-> ss, exc |-> m.exc]
             ELSE merge_loop(RemoveAt([ss EXCEPT ![i] = m.self], j))

\* Side.multiple_from_edges(edges), edges in the order the set is iterated
multiple_from_edges(edges) ==
    merge_loop([n \in 1..Len(edges) |-> from_edges(<<edges[n]>>)])

\* the guard of Side.change_subdivisions with 1 for its 2
LeavesTooFew_One(len, change_by) == len + change_by < 1

\* the guard of Side.change_subdivisions: the change would leave the side
\* fewer than 2 vertices
LeavesTooFew(len, change_by) == len + change_by < 2

\* Side.change_subdivisions(rfcontext, change_by)
Side_change_subdivisions(w, s, change_by) ==
    LET verts == w.sides[s]
        n == Len(verts) + change_by
    IN  IF w.exc # NoExc \/ LeavesTooFew(Len(verts), change_by) THEN w
        \* i / (len(self.verts) + change_by - 1)
        ELSE IF n - 1 = 0 THEN Raise(w, "ZeroDivisionError")
        ELSE LET points == [i \in 1..Len(verts) |-> w.co[verts[i]]]
                 new_points == restroke(points, [i \in 1..n |-> i - 1], n - 1)
                 \* the statements after the new vertices a.vs are made
                 rest(a) ==
                     LET new_verts == <<verts[1]>> \o a.vs \o <<verts[Len(verts)]>>
                     IN  Event([delete_verts(try_new_edges(a.w, IterPairs(new_verts)),
                                             Inner(verts))
                                  EXCEPT !.sides[s] = new_verts],
                               <<"resubdivide", s, Len(verts), Len(new_verts)>>)
             IN  rest(new_vert_points(w, Inner(new_points)))

----------------------------------------------------------------------------
(* The pattern-generation service (the environment).  Its answer to a       *)
(* request is a list of variants for the boundary it was sent: variant v     *)
(* maps the boundary vertices, numbered around the loop, to the combined     *)
(* indices 0..P-1 and adds v-1 interior vertices after them.                 *)

ServicePattern(payload, v) ==
    LET m == Len(payload)
        span(j) == IF Len(payload[j]) = 0 THEN 0 ELSE Len(payload[j]) - 1
        P == SumSeq([j \in 1..m |-> span(j)])
        off(j) == SumSeq([l \in 1..(j - 1) |-> span(l)])
        Q == IF P < 4 THEN P ELSE 4
        M == IF P = 0 THEN 1 ELSE P
    IN  [faces |-> IF v = 1 THEN << [i \in 1..Q |-> i - 1] >>
                   ELSE [q \in 1..(v - 1) |-> <<0, 1 % M, P + q - 1>>],
         verts |-> [i \in 1..(P + v - 1) |-> 0],
         sides |-> [j \in 1..m |-> [k \in 1..Len(payload[j]) |-> (off(j) + k - 1) % M]],
         drawn_verts |-> <<>>,
         drawn_faces |-> <<>>]

\* what the service may answer: no answer, an answer that is no list of
\* variants, or a list of 0..MaxVariants variants
Responses ==
    {[status |-> "unavailable", n |-> 0], [status |-> "malformed", n |-> 0]}
    \cup {[status |-> "ok", n |-> n] : n \in 0..MaxVariants}

\* the answer of a service that is not asked
NoResponse == [status |-> "ok", n |-> 0]

----------------------------------------------------------------------------
(* ExpandedPattern.  c is [w |-> the world, self |-> the AutofillPatch the  *)
(* pattern belongs to]; k is the pattern's (1-based) place in the patch's   *)
(* expanded_patterns.                                                       *)

\* the search of the two inner loops finding no boundary position for any i
MappedAt_Nowhere(pat, i) == <<>>

\* the first (j, k), in the order of the code's two inner loops, with
\* pattern.sides[j][k] = i; <<>> when i is no boundary index
MappedAt(pat, i) ==
    LET js == {j \in 1..Len(pat.sides) : \E k \in 1..Len(pat.sides[j]) : pat.sides[j][k] = i}
    IN  IF js = {} THEN <<>>
        ELSE LET j == Min(js)
             IN  <<j, Min({k \in 1..Len(pat.sides[j]) : pat.sides[j][k] = i})>>

\* the loop of ExpandedPattern.draw over i in range(len(self.verts))
RECURSIVE draw_loop(_, _, _)
draw_loop(c, k, i) ==
    LET pat == c.self.expanded_patterns[k]
    IN  IF c.w.exc # NoExc \/ i >= Len(pat.verts) THEN c
        ELSE LET at == MappedAt(pat, i)
             IN  IF at # <<>>
                 THEN IF at[1] > Len(c.self.sides)
                      THEN [c EXCEPT !.w = Raise(@, "IndexError")]
                      ELSE LET sv == c.w.sides[c.self.sides[at[1]]]
                           IN  IF at[2] > Len(sv)
                               THEN [c EXCEPT !.w = Raise(@, "IndexError")]
                               ELSE draw_loop(
                                      [c EXCEPT !.self.expanded_patterns[k].drawn_verts =
                                                   Append(@, sv[at[2]])],
                                      k, i + 1)
                 ELSE LET a == new_vert_point(c.w, pat.verts[i + 1])
                      IN  draw_loop(
                             [c EXCEPT !.w = a.w,
                                       !.self.expanded_patterns[k].drawn_verts = Append(@, a.v)],
                             k, i + 1)

\* [rfcontext.new_face([self.drawn_verts[i] for i in face]) for face in faces]
RECURSIVE new_faces(_, _, _)
new_faces(w, drawn, faces) ==
    IF w.exc # NoExc \/ faces = <<>> THEN [w |-> w, fs |-> <<>>]
    ELSE LET face == faces[1]
         IN  IF \E n \in 1..Len(face) : face[n] >= Len(drawn)
             THEN [w |-> Raise(w, "IndexError"), fs |-> <<>>]
             ELSE LET a == new_face(w, [n \in 1..Len(face) |-> drawn[face[n] + 1]])
                      b == new_faces(a.w, drawn, Tail(faces))
                  IN  [w |-> b.w, fs |-> <<a.f>> \o b.fs]

\* ExpandedPattern.draw(rfcontext, patch)
draw(c, k) ==
    LET pat == c.self.expanded_patterns[k]
    IN  IF c.w.exc # NoExc THEN c
        ELSE IF pat.drawn_verts # <<>> \/ pat.drawn_faces # <<>>
        THEN [c EXCEPT !.w = Raise(@, "AssertionError")]
        ELSE LET \* the assignment of drawn_faces, a the faces made
                 assign(c1, a) ==
                     IF a.w.exc # NoExc THEN [c1 EXCEPT !.w = a.w]
                     ELSE [c1 EXCEPT !.w = a.w,
                                     !.self.expanded_patterns[k].drawn_faces = a.fs]
                 \* the last statement of draw, after the loop
                 faces(c1) ==
                     assign(c1, new_faces(c1.w, c1.self.expanded_patterns[k].drawn_verts,
                                          pat.faces))
             IN  faces(draw_loop(c, k, 0))

\* the first loop of ExpandedPattern.destroy: a face that is gone already
\* makes delete_faces fail, and the failure is swallowed
RECURSIVE destroy_faces(_, _)
destroy_faces(w, fs) ==
    IF fs = <<>> THEN w
    ELSE LET a == delete_faces(w, fs[1])
         IN  destroy_faces(IF a.exc # NoExc THEN w ELSE a, Tail(fs))

\* the second loop of ExpandedPattern.destroy: the vertices draw created
RECURSIVE destroy_verts(_, _, _)
destroy_verts(w, pat, i) ==
    IF w.exc # NoExc \/ i >= Len(pat.verts) THEN w
    ELSE IF MappedAt(pat, i) # <<>> THEN destroy_verts(w, pat, i + 1)
    ELSE IF i >= Len(pat.drawn_verts) THEN Raise(w, "IndexError")
    ELSE destroy_verts(delete_verts(w, <<pat.drawn_verts[i + 1]>>), pat, i + 1)

\* ExpandedPattern.destroy(rfcontext)
destroy(c, k) ==
    LET pat == c.self.expanded_patterns[k]
    IN  IF c.w.exc # NoExc THEN c
        ELSE IF pat.drawn_verts = <<>> /\ pat.drawn_faces = <<>> THEN c
        ELSE LET \* the two assignments that end destroy, after its loops
                 clear(w2) ==
                     IF w2.exc # NoExc THEN [c EXCEPT !.w = w2]
                     ELSE [c EXCEPT !.w = w2,
                                    !.self.expanded_patterns[k].drawn_verts = <<>>,
                                    !.self.expanded_patterns[k].drawn_faces = <<>>]
             IN  clear(destroy_verts(destroy_faces(c.w, pat.drawn_faces), pat, 0))

----------------------------------------------------------------------------
(* AutofillPatch: [sides, expanded_patterns, i] *)

\* Python's list[i]: the 1-based place of index i in a list of n elements,
\* 0 when list[i] raises IndexError
PyIndex(n, i) ==
    IF 0 <= i /\ i < n THEN i + 1
    ELSE IF i < 0 /\ -n <= i THEN n + i + 1
    ELSE 0

\* AutofillPatch.select
Patch_select(c) ==
    IF c.w.exc # NoExc THEN c
    ELSE IF PyIndex(Len(c.self.expanded_patterns), c.self.i) = 0
    THEN [c EXCEPT !.w = Raise(@, "IndexError")]
    ELSE c

\* AutofillPatch.change's new index with min and max taken the other way round:
\* max(min(0, self.i + x), len - 1)
ChangedIndex_Swapped(i, x, n) ==
    LET hi == IF i + x > 0 THEN 0 ELSE i + x
    IN  IF hi > n - 1 THEN hi ELSE n - 1

\* AutofillPatch.change's new index wrapping at the ends: (self.i + x) % len
ChangedIndex_Wrapped(i, x, n) == (i + x) % n

\* AutofillPatch.change's new index: min(max(0, self.i + x), len - 1)
ChangedIndex(i, x, n) ==
    LET lo == IF i + x < 0 THEN 0 ELSE i + x
    IN  IF lo < n - 1 THEN lo ELSE n - 1

\* AutofillPatch.change(x) without its first statement, the destroy
change_KeepDrawn(c, x) ==
    LET n == Len(c.self.expanded_patterns)
        i2 == ChangedIndex(c.self.i, x, n)
    IN  IF c.w.exc # NoExc THEN c
        ELSE IF PyIndex(n, c.self.i) = 0 THEN [c EXCEPT !.w = Raise(@, "IndexError")]
        ELSE Patch_select(draw([c EXCEPT !.self.i = i2], PyIndex(n, i2)))

\* AutofillPatch.change(x)
change(c, x) ==
    LET n == Len(c.self.expanded_patterns)
    IN  IF c.w.exc # NoExc THEN c
        ELSE IF PyIndex(n, c.self.i) = 0 THEN [c EXCEPT !.w = Raise(@, "IndexError")]
        ELSE LET i2 == ChangedIndex(c.self.i, x, n)
                 \* the statements after the destroy
                 rest(c1) ==
                     IF c1.w.exc # NoExc THEN c1
                     ELSE Patch_select(draw([c1 EXCEPT !.self.i = i2], PyIndex(n, i2)))
             IN  rest(destroy(c, PyIndex(n, c.self.i)))

\* AutofillPatch.next
Patch_next(c) == change(c, 1)

\* AutofillPatch.prev stepping the way next does
Patch_prev_Forward(c) == change(c, 1)

\* AutofillPatch.prev
Patch_prev(c) == change(c, -1)

\* to_json of AutofillPatch.load: the boundary as lists of positions
to_json(c) ==
    [j \in 1..Len(c.self.sides) |->
       [k \in 1..Len(c.w.sides[c.self.sides[j]]) |-> c.w.co[c.w.sides[c.self.sides[j]][k]]]]

\* AutofillPatch.load, the service answering resp
load(c, resp) ==
    IF c.w.exc # NoExc THEN c
    ELSE LET \* the statements after the request is answered with variants
                 answered(c3) ==
                     IF c3.self.expanded_patterns # <<>> THEN Patch_next(c3) ELSE c3
                 \* the request and what follows it, c1 the patch at the request
                 request(c1) ==
                     LET payload == to_json(c1)
                         c2 == [c1 EXCEPT !.w = Event(@, <<"post", c1.self.sides, payload, resp>>)]
                     IN  IF c1.w.exc # NoExc THEN c1
                         ELSE IF resp.status = "unavailable"
                         THEN [c2 EXCEPT !.w = Raise(@, "ConnectionError")]
                         ELSE IF resp.status = "malformed"
                         THEN [c2 EXCEPT !.w = Raise(@, "ValueError")]
                         ELSE answered([c2 EXCEPT !.self.expanded_patterns =
                                            [v \in 1..resp.n |-> ServicePattern(payload, v)],
                                          !.self.i = -1])
             IN  request(IF c.self.i # -1
                         THEN IF PyIndex(Len(c.self.expanded_patterns), c.self.i) = 0
                              THEN [c EXCEPT !.w = Raise(@, "IndexError")]
                              ELSE destroy(c, PyIndex(Len(c.self.expanded_patterns), c.self.i))
                         ELSE c)

\* list.remove(x): the first element equal to x (Side.__eq__) goes
ListRemove(w, list, x) ==
    LET eq == {n \in 1..Len(list) : SideEq(w, list[n], x)}
    IN  IF eq = {} THEN list ELSE RemoveAt(list, Min(eq))

\* the while loop of order_sides; sides is self.current_sides, the very list
\* the caller holds
RECURSIVE order_loop(_, _, _)
order_loop(w, ordered_sides, curr) ==
    LET ordered == Append(ordered_sides, curr)
        last(s) == w.sides[s][Len(w.sides[s])]
        hit(n) == \/ last(curr) = w.sides[w.current_sides[n]][1]
                  \/ last(curr) = last(w.current_sides[n])
        hits == {n \in 1..Len(w.current_sides) : hit(n)}
    IN  IF hits = {} THEN [w |-> Raise(w, "AssertionError"), ordered |-> ordered]
        ELSE LET next == w.current_sides[Min(hits)]
                 w1 == IF last(curr) = w.sides[next][1] THEN w
                       ELSE [w EXCEPT !.sides[next] = Reversed(@)]
                 w2 == [w1 EXCEPT !.current_sides = ListRemove(w1, @, next)]
             IN  IF w2.sides[next][Len(w2.sides[next])] = w2.sides[ordered[1]][1]
                 THEN [w |-> w2, ordered |-> Append(ordered, next)]
                 ELSE order_loop(w2, ordered, next)

\* order_sides(sides) of AutofillPatch.__init__
order_sides(w) ==
    LET curr == w.current_sides[1]
    IN  order_loop([w EXCEPT !.current_sides = ListRemove(w, @, curr)], <<>>, curr)

\* AutofillPatch(self.current_sides, rfcontext)
AutofillPatch_init(w, resp) ==
    LET \* the statements after self.sides = order_sides(sides)
        rest(o) ==
            LET self == [sides |-> o.ordered, expanded_patterns |-> <<>>, i |-> -1]
            IN  IF o.w.exc # NoExc THEN [w |-> o.w, self |-> self]
                ELSE load([w |-> Event(o.w, <<"ordered", o.ordered>>), self |-> self], resp)
    IN  rest(order_sides(w))

----------------------------------------------------------------------------
(* AutofillPatches *)

\* Autofill.init and Autofill.reset: the fields of the tool the model keeps.
\* strip_crosses = 0 stands for None; state is the state of the tool's FSM;
\* move_done_pressed and move_done_released are set when a move begins
AutofillReset ==
    [defer_recomputing |-> FALSE, replay |-> "None", strip_crosses |-> 0,
     strip_stroke3D |-> <<>>, just_created |-> FALSE, state |-> "main",
     move_done_pressed |-> "None", move_done_released |-> "None"]

\* the state as a world record, at the start of a call
World ==
    [bmverts |-> bmverts, co |-> co, bmedges |-> bmedges, bmfaces |-> bmfaces,
     sides |-> sides, current_sides |-> current_sides, patches |-> patches,
     selected_patch_index |-> selected_patch_index, autofill |-> autofill,
     exc |-> NoExc, oom |-> FALSE, trace |-> <<>>]

\* the state a call leaves in the tool and in the mesh, whether it returned
\* or raised
Effects(w, op) ==
    /\ w.oom = FALSE
    /\ bmverts' = w.bmverts
    /\ co' = w.co
    /\ bmedges' = w.bmedges
    /\ bmfaces' = w.bmfaces
    /\ sides' = w.sides
    /\ current_sides' = w.current_sides
    /\ patches' = w.patches
    /\ selected_patch_index' = w.selected_patch_index
    /\ autofill' = w.autofill
    /\ lastOp' = [op |-> op, exc |-> w.exc]
    /\ trace' = w.trace
    /\ changes' = IF op \in {"change_subdivisions", "Side.change_subdivisions"}
                  THEN changes + 1 ELSE changes

\* the state a call of a handler of the tool leaves
Commit(w, op) ==
    /\ Effects(w, op)
    /\ UNCHANGED <<call, result>>

\* the strokes the artist draws: <<from, to, n>> runs from corner `from` to
\* corner `to` over n new vertices
Strokes ==
    {<<1, 2, n>> : n \in 0..MaxInterior}
    \cup {<<3, 2, 0>>, <<3, 4, 0>>, <<4, 1, 0>>}

\* the Side of a finished stroke: new vertices between the two snapped
\* ends, an edge between each two in a row, and Side.from_verts of them
StrokeSide(w, stroke) ==
    LET from == stroke[1]
        to == stroke[2]
        n == stroke[3]
        \* the edges and the Side, a.vs the new vertices
        rest(a) ==
            LET verts == <<from>> \o a.vs \o <<to>>
            IN  [a.w EXCEPT !.bmedges = @ \cup {{verts[i], verts[i + 1]} :
                                                  i \in 1..(Len(verts) - 1)},
                            !.sides = Append(@, from_verts(verts))]
    IN  rest(new_vert_points(w, [k \in 1..n |->
                 w.co[from] + ((w.co[to] - w.co[from]) * k) \div (n + 1)]))

\* sum([len(side.verts) for side in self.current_sides])
TotalVerts(w, list) == SumSeq([n \in 1..Len(list) |-> Len(w.sides[list[n]])])

\* AutofillPatches.add_side(side) with the parity correction made after the
\* patch is built, not before
PatchSet_add_side_LateParity(w0, side, resp) ==
    LET w == [w0 EXCEPT !.current_sides = Append(@, side)]
    IN  IF Len(w.current_sides) # 4 THEN w
        ELSE LET total == TotalVerts(w, w.current_sides)
                 rest(c) ==
                     IF c.w.exc # NoExc THEN c.w
                     ELSE [c.w EXCEPT !.current_sides = <<>>,
                                      !.patches = Append(@, c.self),
                                      !.selected_patch_index = Len(c.w.patches)]
                 fix(w2) == IF total % 2 = 1 THEN Side_change_subdivisions(w2, side, 1)
                            ELSE w2
             IN  fix(rest(AutofillPatch_init(w, resp)))

\* AutofillPatches.add_side(side)
PatchSet_add_side(w0, side, resp) ==
    LET w == [w0 EXCEPT !.current_sides = Append(@, side)]
    IN  IF Len(w.current_sides) # 4 THEN w
        ELSE LET total == TotalVerts(w, w.current_sides)
                 \* the three statements after the patch c.self is built
                 rest(c) ==
                     IF c.w.exc # NoExc THEN c.w
                     ELSE [c.w EXCEPT !.current_sides = <<>>,
                                      !.patches = Append(@, c.self),
                                      !.selected_patch_index = Len(c.w.patches)]
             IN  rest(AutofillPatch_init(
                        IF total % 2 = 1
                        THEN Side_change_subdivisions(w, w.current_sides[4], 1)
                        ELSE w,
                        resp))

add_side(stroke, resp) ==
    /\ Len(sides) < MaxSides
    /\ Len(current_sides) = 3 => Len(patches) < MaxPatches
    /\ Commit(PatchSet_add_side(StrokeSide(World, stroke), Len(sides) + 1, resp), "add_side")

\* list.index(x): the (1-based) place of the first element equal to x
\* (Side.__eq__), 0 when there is none and index raises ValueError
ListIndex(w, list, x) ==
    LET eq == {n \in 1..Len(list) : SideEq(w, list[n], x)}
    IN  IF eq = {} THEN 0 ELSE Min(eq)

\* patch.sides[patch.sides.index(side)].change_subdivisions(rfcontext, by)
change_indexed(w, p, side, by) ==
    LET at == ListIndex(w, w.patches[p].sides, side)
    IN  IF w.exc # NoExc THEN w
        ELSE IF at = 0 THEN Raise(w, "ValueError")
        ELSE Side_change_subdivisions(w, w.patches[p].sides[at], by)

\* patch.load() on the p-th patch of the list
load_patch(w, p, resp) ==
    LET store(c) == [c.w EXCEPT !.patches[p] = c.self]
    IN  store(load([w |-> w, self |-> w.patches[p]], resp))

\* AutofillPatches.change_subdivisions(sides, add)
PatchSet_change_subdivisions(w, args, add, resp) ==
    LET pending == {n \in 1..Len(w.current_sides) : SideEq(w, args[1], w.current_sides[n])}
        holders == {p \in 1..Len(w.patches) : ListIndex(w, w.patches[p].sides, args[1]) # 0}
    IN  IF ~(Len(args) = 1 \/ Len(args) = 2) THEN Raise(w, "AssertionError")
        ELSE IF pending # {}
        THEN IF Len(args) # 1 THEN Raise(w, "AssertionError")
             ELSE Side_change_subdivisions(w, w.current_sides[Min(pending)],
                                           IF add THEN 1 ELSE -1)
        ELSE IF holders = {} THEN w
        ELSE LET p == Min(holders)
                 by == IF Len(args) = 1 THEN (IF add THEN 2 ELSE -2)
                       ELSE (IF add THEN 1 ELSE -1)
             IN  IF Len(args) = 2 /\ ListIndex(w, w.patches[p].sides, args[2]) = 0 THEN w
                 ELSE load_patch(
                        IF Len(args) = 1 THEN change_indexed(w, p, args[1], by)
                        ELSE change_indexed(change_indexed(w, p, args[1], by), p, args[2], by),
                        p, resp)

\* the Side objects the tool holds: pending, or on some patch
HeldSides ==
    Range(current_sides) \cup UNION {Range(patches[p].sides) : p \in 1..Len(patches)}

change_subdivisions(args, add, resp) ==
    /\ changes < MaxChanges
    /\ \A n \in 1..Len(args) : args[n] \in HeldSides
    /\ Len(args) = 2 => args[1] # args[2]
    /\ add => \A n \in 1..Len(args) : Len(sides[args[n]]) + 2 <= MaxSideLen
    /\ Commit(PatchSet_change_subdivisions(World, args, add, resp),
              "change_subdivisions")

\* AutofillPatches.deselect
PatchSet_deselect(w) == [w EXCEPT !.selected_patch_index = -1]

deselect ==
    Commit(PatchSet_deselect(World), "deselect")

\* AutofillPatch.contains_face
contains_face(w, p, face) ==
    IF w.patches[p].i = -1 THEN FALSE
    ELSE face \in Range(w.patches[p].expanded_patterns[
                          PyIndex(Len(w.patches[p].expanded_patterns), w.patches[p].i)].drawn_faces)

\* AutofillPatches.select_patch_from_face(face)
PatchSet_select_patch_from_face(w, face) ==
    LET holders == {p \in 1..Len(w.patches) : contains_face(w, p, face)}
    IN  IF holders = {} THEN PatchSet_deselect(w)
        ELSE LET p == Min(holders)
             IN  IF w.selected_patch_index = p - 1 THEN PatchSet_deselect(w)
                 ELSE LET rest(c) == IF c.w.exc # NoExc THEN c.w
                                     ELSE [c.w EXCEPT !.selected_patch_index = p - 1]
                      IN  rest(Patch_select([w |-> w, self |-> w.patches[p]]))

select_patch_from_face(face) ==
    Commit(PatchSet_select_patch_from_face(World, face), "select_patch_from_face")

\* self.patches[self.selected_patch_index], where next and prev look it up:
\* 0 when the index is out of the list
SelectedPatch(w) == PyIndex(Len(w.patches), w.selected_patch_index)

\* AutofillPatches.next
PatchSet_next(w) ==
    IF w.selected_patch_index = -1 THEN Raise(w, "AssertionError")
    ELSE IF SelectedPatch(w) = 0 THEN Raise(w, "IndexError")
    ELSE LET p == SelectedPatch(w)
             store(c) == [c.w EXCEPT !.patches[p] = c.self]
         IN  store(Patch_next([w |-> w, self |-> w.patches[p]]))

next ==
    Commit(PatchSet_next(World), "next")

\* AutofillPatches.prev
PatchSet_prev(w) ==
    IF w.selected_patch_index = -1 THEN Raise(w, "AssertionError")
    ELSE IF SelectedPatch(w) = 0 THEN Raise(w, "IndexError")
    ELSE LET p == SelectedPatch(w)
             store(c) == [c.w EXCEPT !.patches[p] = c.self]
         IN  store(Patch_prev([w |-> w, self |-> w.patches[p]]))

prev ==
    Commit(PatchSet_prev(World), "prev")

----------------------------------------------------------------------------
(* Side.change_subdivisions called on a side, as AutofillPatches.add_side   *)
(* and AutofillPatches.change_subdivisions call it                          *)

\* the values of change_by the tool passes
SideDeltas == {-2, -1, 1, 2}

side_change_subdivisions(s, change_by) ==
    /\ changes < MaxChanges
    /\ Len(sides[s]) + change_by <= MaxSideLen
    /\ Effects(Side_change_subdivisions(World, s, change_by), "Side.change_subdivisions")
    /\ call' = [fn |-> "Side.change_subdivisions", side |-> s, change_by |-> change_by,
                verts |-> sides[s], points |-> [i \in 1..Len(sides[s]) |-> co[sides[s][i]]],
                bmverts |-> bmverts, bmedges |-> bmedges]
    /\ result' = Returned(sides'[s], lastOp'.exc)

----------------------------------------------------------------------------
(* A stroke drawn across a patch, from one vertex of its boundary to        *)
(* another: create_strip hands it to add_side as it does any other stroke.  *)

\* the vertices on the sides of the patches
PatchVerts ==
    UNION {UNION {Range(sides[patches[p].sides[n]]) : n \in 1..Len(patches[p].sides)} :
             p \in 1..Len(patches)}

add_chord(from, to, resp) ==
    /\ Len(sides) < MaxSides + MaxChords
    /\ from # to
    /\ Len(current_sides) = 3 => Len(patches) < MaxPatches
    /\ Effects(PatchSet_add_side(StrokeSide(World, <<from, to, 0>>), Len(sides) + 1, resp),
               "add_side")
    /\ call' = [fn |-> "add_side", side |-> Len(sides) + 1, verts |-> <<from, to>>,
                sides |-> sides, patches |-> [p \in 1..Len(patches) |-> patches[p].sides],
                current_sides |-> current_sides]
    /\ result' = Returned(<<>>, lastOp'.exc)

----------------------------------------------------------------------------
(* The specification *)

\* the tool as it is constructed, on a mesh of NCorners vertices
InitTool ==
    /\ bmverts = 1..NCorners
    /\ co = [v \in 0..MaxVert |-> IF v \in 1..NCorners THEN CornerCo[v] ELSE 0]
    /\ bmedges = {}
    /\ bmfaces = << >>
    /\ sides = << >>
    /\ current_sides = << >>
    /\ patches = << >>
    /\ selected_patch_index = -1
    /\ autofill = AutofillReset
    /\ lastOp = [op |-> "init", exc |-> NoExc]
    /\ trace = << >>
    /\ changes = 0

Init ==
    /\ InitTool
    /\ call = NoCall
    /\ result = Pending

\* the artist draws four strokes around the corners, one after the other,
\* the k-th of them one of Round(k): a quadrilateral, or a second stroke
\* over the first one
Round(k) ==
    CASE k % 4 = 1 -> [n \in 1..(MaxInterior + 1) |-> <<1, 2, n - 1>>]
      [] k % 4 = 2 -> << <<3, 2, 0>>, <<1, 2, 0>> >>
      [] k % 4 = 3 -> << <<4, 1, 0>> >>
      [] OTHER -> << <<3, 4, 0>> >>

Handlers ==
    \/ \E s \in 1..Len(sides), add \in BOOLEAN, resp \in Responses :
         change_subdivisions(<<s>>, add, resp)
    \/ \E s \in 1..Len(sides), t \in 1..Len(sides), add \in BOOLEAN, resp \in Responses :
         change_subdivisions(<<s, t>>, add, resp)
    \/ \E face \in {0} \cup DOMAIN bmfaces : select_patch_from_face(face)
    \/ deselect
    \/ next
    \/ prev

Next ==
    \/ \E n \in DOMAIN Round(Len(sides) + 1) :
         \E resp \in (IF Len(current_sides) = 3 THEN Responses ELSE {NoResponse}) :
           add_side(Round(Len(sides) + 1)[n], resp)
    \/ Handlers

\* the artist only draws, any of Strokes in any order
NextStrokes ==
    \E stroke \in Strokes :
      \E resp \in (IF Len(current_sides) = 3 THEN Responses ELSE {NoResponse}) :
        add_side(stroke, resp)

\* the artist draws, and a side is resubdivided
NextSide ==
    \/ NextStrokes
    \/ \E s \in 1..Len(sides), change_by \in SideDeltas :
         side_change_subdivisions(s, change_by)

Spec == Init /\ [][Next]_vars

SpecSide == Init /\ [][NextSide]_vars

\* the artist draws the sides of a patch, adds vertices to two of its sides
\* and draws across it
NextChord ==
    \/ \E n \in DOMAIN Round(Len(sides) + 1) :
         \E resp \in (IF Len(current_sides) = 3 THEN Responses ELSE {NoResponse}) :
           add_side(Round(Len(sides) + 1)[n], resp)
    \/ \E s \in 1..Len(sides), t \in 1..Len(sides), resp \in Responses :
         change_subdivisions(<<s, t>>, TRUE, resp)
    \/ \E from \in PatchVerts, to \in PatchVerts :
         \E resp \in (IF Len(current_sides) = 3 THEN Responses ELSE {NoResponse}) :
           add_chord(from, to, resp)

SpecStrokes == Init /\ [][NextStrokes]_vars

\* the artist draws, any of Strokes in any order, and changes the
\* subdivisions of one side or of two
NextResubdivide ==
    \/ NextStrokes
    \/ \E s \in 1..Len(sides), add \in BOOLEAN, resp \in Responses :
         change_subdivisions(<<s>>, add, resp)
    \/ \E s \in 1..Len(sides), t \in 1..Len(sides), add \in BOOLEAN, resp \in Responses :
         change_subdivisions(<<s, t>>, add, resp)

SpecResubdivide == Init /\ [][NextResubdivide]_vars

SpecChord == Init /\ [][NextChord]_vars

----------------------------------------------------------------------------
(* Two patches with sides of the same vertices, and change_subdivisions of  *)
(* two sides                                                                 *)

\* the artist draws a quadrilateral and then a second one over it, whose
\* side from corner 1 to corner 2 runs over a new vertex: the k-th stroke
NeighbourRound(k) ==
    CASE k = 1 -> <<1, 2, 0>>
      [] k = 2 -> <<3, 2, 0>>
      [] k = 3 -> <<4, 1, 0>>
      [] k = 4 -> <<3, 4, 0>>
      [] k = 5 -> <<3, 4, 0>>
      [] k = 6 -> <<3, 2, 0>>
      [] k = 7 -> <<4, 1, 0>>
      [] OTHER -> <<1, 2, 1>>

\* AutofillPatches.add_side(side), of the next stroke of the two rounds
add_neighbour_side(resp) ==
    /\ Len(sides) < MaxSides * MaxNeighbours
    /\ Len(current_sides) = 3 => Len(patches) < MaxNeighbours
    /\ Commit(PatchSet_add_side(StrokeSide(World, NeighbourRound(Len(sides) + 1)),
                                Len(sides) + 1, resp),
              "add_side")

\* AutofillPatches.change_subdivisions([s, t], add); the call keeps what the
\* tool held when it was made
change_pair(s, t, add, resp) ==
    /\ changes < MaxChanges
    /\ s \in HeldSides /\ t \in HeldSides
    /\ s # t
    /\ add => Len(sides[s]) + 2 <= MaxSideLen /\ Len(sides[t]) + 2 <= MaxSideLen
    /\ Effects(PatchSet_change_subdivisions(World, <<s, t>>, add, resp),
               "change_subdivisions")
    /\ call' = [fn |-> "change_subdivisions", args |-> <<s, t>>, add |-> add,
                sides |-> sides, patches |-> [p \in 1..Len(patches) |-> patches[p].sides],
                current_sides |-> current_sides,
                selected_patch_index |-> selected_patch_index]
    /\ result' = Returned(<<>>, lastOp'.exc)

NextNeighbours ==
    \/ \E resp \in (IF Len(current_sides) = 3 THEN Responses ELSE {NoResponse}) :
         add_neighbour_side(resp)
    \/ \E s \in 1..Len(sides), t \in 1..Len(sides), add \in BOOLEAN, resp \in Responses :
         change_pair(s, t, add, resp)

SpecNeighbours == Init /\ [][NextNeighbours]_vars

----------------------------------------------------------------------------
(* Autofill, the tool: a finished stroke, the defer-recomputing scope and    *)
(* the callbacks of the host.  Points lie on one axis, as the vertices do.   *)
(* autofill.py is written for a Side that is made of edges, Side(edges):     *)
(* the call is modelled as Side.from_edges(edges).                           *)

\* self.rfwidgets['brush'].radius
BrushRadius == 50

\* options['strokes snap dist'] and options['strokes merge dist']
SnapDist == 5

MergeDist == 5

\* rfcontext.accel_nearest2D_vert(point=p, max_dist=d): the vertices it may
\* return, 0 for None; of two vertices as near it returns either
Nearest(w, p, d) ==
    LET near == {v \in w.bmverts : AbsDiff(w.co[v], p) <= d}
    IN  IF near = {} THEN {0}
        ELSE {v \in near : \A u \in near : AbsDiff(w.co[v], p) <= AbsDiff(w.co[u], p)}

\* Autofill.update: what it recomputes is left out, that it did is recorded
update(w) ==
    IF w.autofill.defer_recomputing THEN w
    ELSE Event(w, <<"update">>)

\* Autofill.update_target
update_target(w) ==
    IF w.autofill.defer_recomputing THEN w
    ELSE IF ~w.autofill.just_created
    THEN [w EXCEPT !.autofill = [AutofillReset EXCEPT
                                   !.strip_stroke3D = w.autofill.strip_stroke3D,
                                   !.state = w.autofill.state,
                                   !.move_done_pressed = w.autofill.move_done_pressed,
                                   !.move_done_released = w.autofill.move_done_released]]
    ELSE [w EXCEPT !.autofill.just_created = FALSE]

\* Autofill.defer_recomputing_while, entered: the flag is set before the
\* block of the with statement runs
defer_enter(w) ==
    Event([w EXCEPT !.autofill.defer_recomputing = TRUE], <<"defer">>)

\* Autofill.defer_recomputing_while, left: the finally clause runs whether
\* the block returned or raised
defer_exit(w) ==
    update(Event([w EXCEPT !.autofill.defer_recomputing = FALSE], <<"release">>))

\* sum((s1 - s0).length for (s0, s1) in iter_pairs(stroke, wrap=False))
StrokeLen(stroke) ==
    SumSeq([i \in 1..(Len(stroke) - 1) |-> AbsDiff(stroke[i], stroke[i + 1])])

\* max(1, math.ceil(stroke_len / (2 * radius)))
CrossesOf(stroke) ==
    LET c == (StrokeLen(stroke) + 2 * BrushRadius - 1) \div (2 * BrushRadius)
    IN  IF c < 1 THEN 1 ELSE c

\* rfcontext.undo_push(name), or undo_repush(name) when the stroke is replayed
PushUndo(w, name) ==
    Event(w, <<IF w.autofill.strip_crosses # 0 THEN "undo_repush" ELSE "undo_push", name>>)

\* the first statements of create_strip and of create_cycle: the undo entry
\* and self.strip_crosses
WithCrosses(w, name, stroke) ==
    LET pushed == PushUndo(w, name)
    IN  IF pushed.autofill.strip_crosses # 0 THEN pushed
        ELSE [pushed EXCEPT !.autofill.strip_crosses = CrossesOf(stroke)]

\* create_strip's nstroke: restroke(stroke, [i / crosses for i in range(crosses+1)])
StripPoints(stroke, crosses) ==
    restroke(stroke, [i \in 1..(crosses + 1) |-> i - 1], crosses)

\* create_cycle's nstroke: restroke(stroke, [i / crosses for i in range(crosses)])
CyclePoints(stroke, crosses) ==
    restroke(stroke, [i \in 1..crosses |-> i - 1], crosses)

\* the vertices, the edges and the Side of create_strip: a new vertex at each
\* point of nstroke, the first merged into snap0 and the last into snap1
StripSide(w, nstroke, snap0, snap1) ==
    LET inner == SubSeq(nstroke, IF snap0 # 0 THEN 2 ELSE 1,
                        IF snap1 # 0 THEN Len(nstroke) - 1 ELSE Len(nstroke))
        rest(a) ==
            LET verts == (IF snap0 # 0 THEN <<snap0>> ELSE <<>>) \o a.vs
                         \o (IF snap1 # 0 THEN <<snap1>> ELSE <<>>)
            IN  [a.w EXCEPT !.bmedges = @ \cup {{verts[i], verts[i + 1]} :
                                                  i \in 1..(Len(verts) - 1)},
                            !.sides = Append(@, from_edges(IterPairs(verts)))]
    IN  rest(new_vert_points(w, inner))

\* the vertices, the edges (wrap=True) and the Side of create_cycle
CycleSide(w, nstroke) ==
    LET rest(a) ==
            LET edges == IterPairs(a.vs \o <<a.vs[1]>>)
            IN  [a.w EXCEPT !.bmedges = @ \cup {{edges[i][1], edges[i][2]} :
                                                  i \in 1..Len(edges)},
                            !.sides = Append(@, from_edges(edges))]
    IN  rest(new_vert_points(w, nstroke))

\* self.just_created = True, the last statement of the with block
JustCreated(w) ==
    IF w.exc # NoExc THEN w ELSE [w EXCEPT !.autofill.just_created = TRUE]

\* Autofill.create_strip; projects: every point of the stroke projects
create_strip(w, projects, snap0, snap1, resp) ==
    LET stroke == w.autofill.strip_stroke3D
        ready == WithCrosses(w, "create strip", stroke)
        nstroke == StripPoints(stroke, ready.autofill.strip_crosses)
        block(x) == JustCreated(PatchSet_add_side(StripSide(x, nstroke, snap0, snap1),
                                                  Len(x.sides) + 1, resp))
    IN  IF ~projects THEN w
        ELSE IF Len(nstroke) < 2 THEN ready
        ELSE defer_exit(block(defer_enter(ready)))

\* Autofill.create_cycle
create_cycle(w, projects, resp) ==
    LET stroke == w.autofill.strip_stroke3D \o SubSeq(w.autofill.strip_stroke3D, 1, 1)
        ready == WithCrosses(w, "create cycle", stroke)
        nstroke == CyclePoints(stroke, ready.autofill.strip_crosses)
        block(x) == JustCreated(PatchSet_add_side(CycleSide(x, nstroke),
                                                  Len(x.sides) + 1, resp))
    IN  IF ~projects THEN w
        ELSE IF Len(nstroke) <= 2
        THEN Event(ready, <<"alert_user", "Could not find create cycle from stroke.">>)
        ELSE defer_exit(block(defer_enter(ready)))

\* is the stroke in a circle?
Cyclic(stroke) ==
    /\ AbsDiff(stroke[1], stroke[Len(stroke)]) < BrushRadius
    /\ \E i \in 1..Len(stroke) : AbsDiff(stroke[i], stroke[1]) > 2 * BrushRadius

\* self.strip_stroke3D of Autofill.stroke: the points of the stroke between
\* the positions of the vertices its ends snapped to
SnappedStroke(w, stroke, bmv0, bmv1) ==
    (IF bmv0 # 0 THEN <<w.co[bmv0]>> ELSE <<>>) \o stroke
    \o (IF bmv1 # 0 THEN <<w.co[bmv1]>> ELSE <<>>)

\* Autofill.stroke, called when the artist finishes a stroke: stroke holds
\* the points left by process_stroke_filter and process_stroke_source.  The
\* first event of the trace tells what the handler was called on
Autofill_stroke(w0, stroke, bmv0, bmv1, projects, snap0, snap1, resp) ==
    LET w == Event(w0, <<"stroke", stroke, projects>>)
    IN
    IF Len(stroke) < 2 THEN w
    ELSE LET set == [w EXCEPT !.autofill.strip_stroke3D = SnappedStroke(w, stroke, bmv0, bmv1),
                              !.autofill.strip_crosses = 0,
                              !.autofill.replay = "None"]
         IN  IF Cyclic(stroke)
             THEN create_cycle([set EXCEPT !.autofill.replay = "create_cycle"], projects, resp)
             ELSE create_strip([set EXCEPT !.autofill.replay = "create_strip"],
                               projects, snap0, snap1, resp)

\* the strokes the artist draws with the brush: between two corners, on one
\* spot, of one point, and in a circle
BrushStrokes ==
    {<<0>>, <<0, 60>>, <<60, 0>>, <<60, 60>>, <<0, 120, 10>>}

\* the points create_strip resamples of the stroke, its ends snapped
NStrokeOf(stroke, bmv0, bmv1) ==
    LET s3 == SnappedStroke(World, stroke, bmv0, bmv1)
    IN  StripPoints(s3, CrossesOf(s3))

\* the vertices an end of the stroke may snap or merge to, with
\* options['strokes snap stroke'] on
SnapChoices(p, d) == Nearest(World, p, d)

\* the vertices the k-th point of the stroke may snap to in Autofill.stroke
EndChoices(points, k) ==
    IF Len(points) < 2 THEN {0} ELSE SnapChoices(points[k], SnapDist)

\* the vertices the k-th point of nstroke may merge to in create_strip
MergeChoices(points, bmv0, bmv1, projects, last) ==
    IF Len(points) >= 2 /\ ~Cyclic(points) /\ projects
       /\ Len(NStrokeOf(points, bmv0, bmv1)) >= 2
    THEN LET nstroke == NStrokeOf(points, bmv0, bmv1)
         IN  SnapChoices(nstroke[IF last THEN Len(nstroke) ELSE 1], MergeDist)
    ELSE {0}

finish_stroke(points, bmv0, bmv1, projects, snap0, snap1, resp) ==
    /\ autofill.state = "main"
    /\ Len(sides) < MaxSides
    /\ Len(current_sides) = 3 => Len(patches) < MaxPatches
    /\ snap0 # 0 => snap0 # snap1
    /\ Commit(Autofill_stroke(World, points, bmv0, bmv1, projects, snap0, snap1, resp),
              "stroke")

\* the host reports a change of the target mesh: update_target, then update
target_change ==
    /\ autofill.state = "main"
    /\ Commit(update(update_target(World)), "target_change")

\* the host reports a change of the view: update
view_change ==
    Commit(update(World), "view_change")

\* how the artist begins a move: with the grab key, or by dragging a
\* selected edge with the action button
Grabs == {"grab", "action"}

\* modal_main returning 'move', and Autofill.move_enter
Autofill_move_enter(w, how) ==
    Event([w EXCEPT !.autofill.move_done_pressed = IF how = "grab" THEN "confirm" ELSE "None",
                    !.autofill.move_done_released = IF how = "grab" THEN "None" ELSE "action",
                    !.autofill.defer_recomputing = TRUE,
                    !.autofill.state = "move"],
          <<"undo_push", "move grabbed">>)

move_enter(how) ==
    /\ autofill.state = "main"
    /\ Commit(Autofill_move_enter(World, how), "move_enter")

\* what the artist does while moving: presses confirm, releases the action
\* button, presses cancel, or none of them with the mouse at rest
MoveInputs == {"confirm", "action", "cancel", "none"}

\* Autofill.move with the flag left set when the action button is released
Autofill_move_KeepDeferred(w, input) ==
    IF input = "confirm" /\ w.autofill.move_done_pressed = "confirm"
    THEN [w EXCEPT !.autofill.defer_recomputing = FALSE, !.autofill.state = "main"]
    ELSE IF input = "action" /\ w.autofill.move_done_released = "action"
    THEN [w EXCEPT !.autofill.state = "main"]
    ELSE IF input = "cancel"
    THEN Event([w EXCEPT !.autofill.defer_recomputing = FALSE, !.autofill.state = "main"],
               <<"undo_cancel">>)
    ELSE w

\* Autofill.move, and Autofill.move_exit when it returns 'main'.  Nothing is
\* grabbed and options['strokes automerge'] is off: mergeSnapped returns at
\* once, and rfcontext.undo_cancel() finds the mesh as move_enter left it
Autofill_move(w, input) ==
    IF input = "confirm" /\ w.autofill.move_done_pressed = "confirm"
    THEN [w EXCEPT !.autofill.defer_recomputing = FALSE, !.autofill.state = "main"]
    ELSE IF input = "action" /\ w.autofill.move_done_released = "action"
    THEN [w EXCEPT !.autofill.defer_recomputing = FALSE, !.autofill.state = "main"]
    ELSE IF input = "cancel"
    THEN Event([w EXCEPT !.autofill.defer_recomputing = FALSE, !.autofill.state = "main"],
               <<"undo_cancel">>)
    ELSE w

move(input) ==
    /\ autofill.state = "move"
    /\ Commit(Event(Autofill_move(World, input), <<"move", input>>), "move")

NextAutofill ==
    \/ \E points \in BrushStrokes, projects \in BOOLEAN :
         \E bmv0 \in EndChoices(points, 1), bmv1 \in EndChoices(points, Len(points)) :
           \E snap0 \in MergeChoices(points, bmv0, bmv1, projects, FALSE),
              snap1 \in MergeChoices(points, bmv0, bmv1, projects, TRUE) :
             \E resp \in (IF Len(current_sides) = 3 THEN Responses ELSE {NoResponse}) :
               finish_stroke(points, bmv0, bmv1, projects, snap0, snap1, resp)
    \/ target_change
    \/ view_change
    \/ \E how \in Grabs : move_enter(how)
    \/ \E input \in MoveInputs : move(input)

SpecAutofill == Init /\ [][NextAutofill]_vars

----------------------------------------------------------------------------
(* The graph functions.  g is the call: g.mesh the edges of the mesh, each   *)
(* a set {v0, v1}; g.order the order in which the mesh lists the vertices    *)
(* and, around a vertex, its edges; g.edges the edges passed.  None, the     *)
(* edge before the first one, is the empty set.                              *)

\* e.other_vert(v)
other_vert(e, v) == CHOOSE u \in e : u # v

\* v.link_edges: the edges of the mesh at v
link_edges(g, v) ==
    SelectSeq([i \in 1..Len(g.order) |-> {v, g.order[i]}],
              LAMBDA e : Cardinality(e) = 2 /\ e \in g.mesh)

\* trace[ec] = (vc, ep), tr being the dict trace
Traced(tr, ec, vc, ep) ==
    [e \in DOMAIN tr \cup {ec} |-> IF e = ec THEN <<vc, ep>> ELSE tr[e]]

\* [(en, vn, ec) for en in vn.link_edges if en in edges]
LinkedIn(g, vn, ec) ==
    LET le == SelectSeq(link_edges(g, vn), LAMBDA en : en \in g.edges)
    IN  [i \in 1..Len(le) |-> <<le[i], vn, ec>>]

\* the test of find_edge_cycles on a start edge, without its second half
SkipStart_NotPassed(g, estart, in_edges) == estart \notin g.edges

\* find_edge_cycles: the start edges it passes over, those not among the
\* edges passed and those on a cycle already emitted
SkipStart(g, estart, in_edges) == estart \notin g.edges \/ estart \in in_edges

\* the breadth-first search of find_edge_cycles: `while q`
RECURSIVE cycle_search(_, _, _, _)
cycle_search(g, vstart, q, tr) ==
    IF q = <<>> THEN [found |-> {}, tr |-> tr]
    ELSE IF q[1][1] \in DOMAIN tr THEN cycle_search(g, vstart, Tail(q), tr)
    ELSE IF other_vert(q[1][1], q[1][2]) = vstart
    THEN [found |-> q[1][1], tr |-> Traced(tr, q[1][1], q[1][2], q[1][3])]
    ELSE cycle_search(g, vstart,
                      Tail(q) \o LinkedIn(g, other_vert(q[1][1], q[1][2]), q[1][1]),
                      Traced(tr, q[1][1], q[1][2], q[1][3]))

\* the walk back from the edge found: `while True`; st is the generator's
\* state, [in_verts, in_edges, cycles]
RECURSIVE cycle_walk(_, _, _, _)
cycle_walk(vstart, tr, l, st) ==
    LET vn == tr[l[Len(l)]][1]
        ep == tr[l[Len(l)]][2]
        marked == [st EXCEPT !.in_verts = @ \cup {vn}, !.in_edges = @ \cup {ep}]
    IN  IF vn = vstart THEN [marked EXCEPT !.cycles = Append(@, l)]
        ELSE cycle_walk(vstart, tr, Append(l, ep), marked)

\* `for estart in vstart.link_edges`, from the j-th edge on
RECURSIVE cycle_starts(_, _, _, _)
cycle_starts(g, vstart, j, st) ==
    IF j > Len(link_edges(g, vstart)) THEN st
    ELSE IF SkipStart(g, link_edges(g, vstart)[j], st.in_edges)
    THEN cycle_starts(g, vstart, j + 1, st)
    ELSE LET \* the statements after the search
             rest(b) ==
                 IF b.found = {} THEN st
                 ELSE cycle_walk(vstart, b.tr, <<b.found>>,
                                 [st EXCEPT !.in_edges = @ \cup {b.found}])
         IN  cycle_starts(g, vstart, j + 1,
                          rest(cycle_search(g, vstart,
                                            <<<<link_edges(g, vstart)[j], vstart, {}>>>>,
                                            [e \in {} |-> <<>>])))

\* `for vstart in verts`, from the i-th vertex on
RECURSIVE cycle_verts(_, _, _, _)
cycle_verts(g, verts, i, st) ==
    IF i > Len(verts) THEN st
    ELSE IF verts[i] \in st.in_verts THEN cycle_verts(g, verts, i + 1, st)
    ELSE cycle_verts(g, verts, i + 1, cycle_starts(g, verts[i], 1, st))

\* find_edge_cycles(edges): the cycles it yields, in order
find_edge_cycles(g) ==
    cycle_verts(g, SelectSeq(g.order, LAMBDA v : v \in UNION g.edges), 1,
                [in_verts |-> {}, in_edges |-> {}, cycles |-> <<>>]).cycles

\* not e.is_manifold and e.is_valid: g.manifold the manifold edges of the
\* mesh; the edges a live vertex lists are all valid
Walkable(g, e) == e \notin g.manifold

\* walk_to_corner's list comprehensions: the edges at v to walk next, ec the
\* edge v was reached by
WalkFrom(g, v, ec) ==
    LET le == SelectSeq(link_edges(g, v), LAMBDA en : en # ec /\ Walkable(g, en))
    IN  [i \in 1..Len(le) |-> <<le[i], v, ec>>]

\* the search of walk_to_corner: `while edges`
RECURSIVE corner_search(_, _, _)
corner_search(g, edges, touched) ==
    IF edges = <<>> THEN [found |-> {}, touched |-> touched]
    ELSE IF edges[1][1] \in DOMAIN touched THEN corner_search(g, Tail(edges), touched)
    ELSE IF other_vert(edges[1][1], edges[1][2]) \in UNION g.to_edges
    THEN [found |-> edges[1][1],
          touched |-> Traced(touched, edges[1][1], edges[1][2], edges[1][3])]
    ELSE corner_search(g,
                       Tail(edges) \o WalkFrom(g, other_vert(edges[1][1], edges[1][2]),
                                                edges[1][1]),
                       Traced(touched, edges[1][1], edges[1][2], edges[1][3]))

\* the walk back of walk_to_corner: `while True`
RECURSIVE corner_walk(_, _, _)
corner_walk(g, touched, walk) ==
    IF touched[walk[Len(walk)]][1] = g.from_vert THEN walk
    ELSE corner_walk(g, touched, Append(walk, touched[walk[Len(walk)]][2]))

\* walk_to_corner(from_vert, to_edges): [none |-> TRUE] for None
walk_to_corner(g) ==
    LET \* the statements after the search
        rest(b) ==
            IF b.found = {} THEN [none |-> TRUE, walk |-> <<>>]
            ELSE [none |-> FALSE, walk |-> corner_walk(g, b.touched, <<b.found>>)]
    IN  rest(corner_search(g, WalkFrom(g, g.from_vert, {}), [e \in {} |-> <<>>]))

----------------------------------------------------------------------------
(* The module functions, each called once on arguments drawn from a small   *)
(* set                                                                      *)

\* the tool and the mesh, which a module function leaves alone
tool == <<bmverts, co, bmedges, bmfaces, sides, current_sides, patches,
          selected_patch_index, lastOp, trace, changes, autofill>>

\* the sequences over S of lo..hi elements
RECURSIVE SeqsOf(_, _)
SeqsOf(S, n) ==
    IF n = 0 THEN {<<>>}
    ELSE {Append(q, x) : q \in SeqsOf(S, n - 1), x \in S}

SeqsBetween(S, lo, hi) == UNION {SeqsOf(S, n) : n \in lo..hi}

\* where the points of a polyline lie: two points next to each other near
\* the origin, and two far away
Coords == {0, 1, Far - 1, Far}

\* restroke's arguments: a polyline of at least 2 points, and fractions
\* k / FractionDen in any order, some of them outside [0, 1]
RestrokeCalls ==
    {[fn |-> "restroke", stroke |-> stroke, nums |-> nums, den |-> FractionDen] :
       stroke \in SeqsBetween(Coords, 2, MaxPoints),
       nums \in SeqsBetween((-1)..(FractionDen + 1), 0, MaxStops)}

InitRestroke ==
    /\ InitTool
    /\ call \in RestrokeCalls
    /\ result = Pending

\* restroke(stroke, percentages)
restroke_call ==
    /\ call.fn = "restroke"
    /\ result = Pending
    /\ result' = Returned(restroke(call.stroke, call.nums, call.den), NoExc)
    /\ UNCHANGED <<tool, call>>

SpecRestroke == InitRestroke /\ [][restroke_call]_vars

\* Side.merge's arguments: two sides A and B, each a list of 2 to
\* MaxMergeLen of the vertices 1..MergeVerts
MergeCalls ==
    {[fn |-> "Side.merge", A |-> A, B |-> B] :
       A, B \in SeqsBetween(1..MergeVerts, 2, MaxMergeLen)}

InitMerge ==
    /\ InitTool
    /\ call \in MergeCalls
    /\ result = Pending

\* A.merge(B), and B.merge(A) on the two sides as they were
merge_call ==
    /\ call.fn = "Side.merge"
    /\ result = Pending
    /\ result' = Returned([ab |-> Side_merge(call.A, call.B),
                           ba |-> Side_merge(call.B, call.A)], NoExc)
    /\ UNCHANGED <<tool, call>>

SpecMerge == InitMerge /\ [][merge_call]_vars

\* the edges there can be between the vertices 1..EdgeVerts, each with its
\* two vertices in either order
OrientedEdges == {e \in (1..EdgeVerts) \X (1..EdgeVerts) : e[1] # e[2]}

\* multiple_from_edges' argument: a set of up to MaxSetEdges edges, as the
\* list of its edges in the order the set is iterated
InitEdges ==
    /\ InitTool
    /\ \E n \in 0..MaxSetEdges :
         \E edges \in SeqsOf(OrientedEdges, n) :
           /\ \A a \in 1..n, b \in 1..n : a # b => Range(edges[a]) # Range(edges[b])
           /\ call = [fn |-> "Side.multiple_from_edges", edges |-> edges]
    /\ result = Pending

\* Side.multiple_from_edges(edges)
multiple_from_edges_call ==
    /\ call.fn = "Side.multiple_from_edges"
    /\ result = Pending
    /\ result' = Returned(multiple_from_edges(call.edges).sides,
                          multiple_from_edges(call.edges).exc)
    /\ UNCHANGED <<tool, call>>

SpecEdges == InitEdges /\ [][multiple_from_edges_call]_vars

\* every edge there can be between the vertices 1..WalkVerts
WalkEdges == {{u, v} : u, v \in 1..WalkVerts} \ {{v} : v \in 1..WalkVerts}

\* 1..WalkVerts in ascending order, started at k + 1
WalkRotated(k) == [i \in 1..WalkVerts |-> ((i + k - 1) % WalkVerts) + 1]

\* walk_to_corner's arguments, and the mesh they are part of: any mesh on
\* the vertices, any of its edges manifold, from_vert any vertex, to_edges
\* up to MaxToEdges edges of the mesh
InitWalk ==
    /\ InitTool
    /\ \E mesh \in SUBSET WalkEdges :
         \E manifold \in SUBSET mesh,
            to_edges \in {T \in SUBSET mesh : Cardinality(T) <= MaxToEdges},
            from_vert \in 1..WalkVerts,
            order \in {WalkRotated(0), Reversed(WalkRotated(0))} :
           call = [fn |-> "walk_to_corner", from_vert |-> from_vert, to_edges |-> to_edges,
                   mesh |-> mesh, manifold |-> manifold, order |-> order]
    /\ result = Pending

\* walk_to_corner(from_vert, to_edges)
walk_to_corner_call ==
    /\ call.fn = "walk_to_corner"
    /\ result = Pending
    /\ result' = Returned(walk_to_corner(call), NoExc)
    /\ UNCHANGED <<tool, call>>

SpecWalk == InitWalk /\ [][walk_to_corner_call]_vars

\* the vertices of the graphs
GraphIds == 1..GraphVerts

\* every edge there can be between them
AllEdges == {{u, v} : u, v \in GraphIds} \ {{v} : v \in GraphIds}

\* GraphIds in ascending order, started at k + 1
Rotated(k) == [i \in 1..GraphVerts |-> ((i + k - 1) % GraphVerts) + 1]

\* the orders in which the mesh may list vertices and edges
Orders == {Rotated(k) : k \in 0..(Rotations - 1)}
          \cup {Reversed(Rotated(k)) : k \in 0..(Rotations - 1)}

\* find_edge_cycles's argument: any set of at most MaxEdges edges of a mesh
CycleCalls ==
    {[fn |-> "find_edge_cycles", edges |-> edges, mesh |-> AllEdges, order |-> order] :
       edges \in {E \in SUBSET AllEdges : Cardinality(E) <= MaxEdges},
       order \in Orders}

InitCycles ==
    /\ InitTool
    /\ call \in CycleCalls
    /\ result = Pending

\* list(find_edge_cycles(edges))
find_edge_cycles_call ==
    /\ call.fn = "find_edge_cycles"
    /\ result = Pending
    /\ result' = Returned(find_edge_cycles(call), NoExc)
    /\ UNCHANGED <<tool, call>>

SpecCycles == InitCycles /\ [][find_edge_cycles_call]_vars

----------------------------------------------------------------------------
(* What the properties speak of *)

\* a variant is materialized: it has drawn vertices or faces
Materialized(pat) == pat.drawn_verts # <<>> \/ pat.drawn_faces # <<>>

\* the variants of the p-th patch that are materialized
MaterializedOf(p) ==
    {k \in 1..Len(patches[p].expanded_patterns) :
       Materialized(patches[p].expanded_patterns[k])}

First(s) == sides[s][1]

Last(s) == sides[s][Len(sides[s])]

Ends(s) == {First(s), Last(s)}

\* the four sides added so far run around a quadrilateral: four different
\* stretches, two of them at each corner
QuadLoop ==
    /\ Len(sides) = 4
    /\ \A s \in 1..4 : Cardinality(Ends(s)) = 2
    /\ \A s \in 1..4, t \in 1..4 : s # t => Ends(s) # Ends(t)
    /\ \A v \in UNION {Ends(s) : s \in 1..4} :
         Cardinality({s \in 1..4 : v \in Ends(s)}) = 2

\* the sides ps chain cyclically: each ends where the next one starts
Chained(ps) ==
    \A j \in 1..Len(ps) : Last(ps[j]) = First(ps[(j % Len(ps)) + 1])

\* the boundary of the sides ps as the service is sent it
Boundary(ps) ==
    [j \in 1..Len(ps) |-> [k \in 1..Len(sides[ps[j]]) |-> co[sides[ps[j]][k]]]]

\* the events of the last call, by kind
Posts == {k \in 1..Len(trace) : trace[k][1] = "post"}

Resubdivisions == {k \in 1..Len(trace) : trace[k][1] = "resubdivide"}

Orderings == {k \in 1..Len(trace) : trace[k][1] = "ordered"}

\* the patches whose sides are exactly ps
PatchesOf(ps) == {p \in 1..Len(patches) : patches[p].sides = ps}

\* by how much the last call changed the length of side s
Delta(s) ==
    SumSeq([k \in 1..Len(trace) |->
              IF trace[k][1] = "resubdivide" /\ trace[k][2] = s
              THEN trace[k][4] - trace[k][3] ELSE 0])

\* the variants of the p-th patch are the service's for the boundary the
\* patch has now
VariantsCurrent(p) ==
    \A v \in 1..Len(patches[p].expanded_patterns) :
       LET have == patches[p].expanded_patterns[v]
           want == ServicePattern(Boundary(patches[p].sides), v)
       IN  have.faces = want.faces /\ have.verts = want.verts /\ have.sides = want.sides

\* the mesh holds no face and no vertex beyond the corners, the sides and
\* what the materialized variants drew
NothingLeft ==
    /\ DOMAIN bmfaces \subseteq RefFaces(World)
    /\ bmverts \subseteq (1..NCorners) \cup RefVerts(World)

----------------------------------------------------------------------------
(* The properties *)

\* C1: from an empty PatchSet, once four sides that run around a
\* quadrilateral have been added one at a time with add_side, there is exactly
\* one patch, its four sides chain cyclically, and no side is pending.
C1_QuadClosure ==
    QuadLoop =>
      /\ Len(patches) = 1
      /\ Len(patches[1].sides) = 4
      /\ Chained(patches[1].sides)
      /\ current_sides = << >>

\* The same, for the calls that returned: it holds whenever the service
\* answered the fourth call with a list of variants.
QuadClosureWhenAnswered ==
    (QuadLoop /\ lastOp.exc = NoExc) =>
      /\ Len(patches) = 1
      /\ Len(patches[1].sides) = 4
      /\ Chained(patches[1].sides)
      /\ current_sides = << >>

\* C2: when add_side closes a patch whose sides held an odd number of
\* vertices in total, the patch it makes holds an even number, exactly one of
\* its sides is longer by exactly 1, and its other sides kept their lengths.
C2_OddPerimeterCorrected ==
    \A k \in Orderings :
      LET ps == trace[k][2]
          before == SumSeq([j \in 1..Len(ps) |-> Len(sides[ps[j]]) - Delta(ps[j])])
          after == SumSeq([j \in 1..Len(ps) |-> Len(sides[ps[j]])])
      IN  (lastOp.op = "add_side" /\ PatchesOf(ps) # {} /\ before % 2 = 1) =>
            /\ after % 2 = 0
            /\ \E j \in 1..Len(ps) :
                 /\ Delta(ps[j]) = 1
                 /\ \A l \in 1..Len(ps) : l # j => Delta(ps[l]) = 0

\* C3: every side added to the PatchSet is at all times in exactly one
\* place: in the pending list, or on exactly one patch.
C3_SideInOnePlace ==
    \A s \in 1..Len(sides) :
      Cardinality({n \in 1..Len(current_sides) : current_sides[n] = s})
        + SumSeq([p \in 1..Len(patches) |->
                    Cardinality({j \in 1..Len(patches[p].sides) : patches[p].sides[j] = s})])
        = 1

\* C4: at every moment at most one variant of each patch is materialized.
C4_OneMaterialized ==
    \A p \in 1..Len(patches) : Cardinality(MaterializedOf(p)) <= 1

\* a patch of two variants or more, one of them materialized, after the
\* artist stepped through its variants
C4_Stepped ==
    /\ lastOp.op \in {"next", "prev"}
    /\ lastOp.exc = NoExc
    /\ \E p \in 1..Len(patches) :
         /\ Len(patches[p].expanded_patterns) >= 2
         /\ Cardinality(MaterializedOf(p)) = 1

\* the state of the selected patch that C5 compares before and after
Shown(w) ==
    LET pt == w.patches[w.selected_patch_index + 1]
    IN  [i |-> pt.i,
         materialized |-> {k \in 1..Len(pt.expanded_patterns) :
                             Materialized(pt.expanded_patterns[k])}]

\* a variant is materialized in full: each of its vertices and faces is drawn
Complete(pat) ==
    /\ Len(pat.drawn_verts) = Len(pat.verts)
    /\ Len(pat.drawn_faces) = Len(pat.faces)

\* the selected patch has two variants or more and its active one, and no
\* other, is materialized
ShowsActive ==
    /\ selected_patch_index \in 0..(Len(patches) - 1)
    /\ Len(patches[selected_patch_index + 1].expanded_patterns) >= 2
    /\ patches[selected_patch_index + 1].i >= 0
    /\ MaterializedOf(selected_patch_index + 1) = {patches[selected_patch_index + 1].i + 1}
    /\ Complete(patches[selected_patch_index + 1].expanded_patterns[
                   patches[selected_patch_index + 1].i + 1])

\* next() and then prev(), from the state as it is
NextThenPrev == PatchSet_prev(PatchSet_next(World))

\* C5, as the spec states it: on a patch of two variants or more, at any
\* active index, next() and then prev() leave the variant materialized that
\* was materialized before.
C5_NextPrevRestores ==
    ShowsActive => Shown(NextThenPrev) = Shown(World)

\* C5, amended: the same, when the active index is not the last one.
C5_NextPrevRestoresBelowLast ==
    (/\ ShowsActive
     /\ patches[selected_patch_index + 1].i
          < Len(patches[selected_patch_index + 1].expanded_patterns) - 1)
      => Shown(NextThenPrev) = Shown(World)

\* after next() and then prev() on a patch of two variants: the first one is
\* shown again
C5_BackAtFirst ==
    /\ lastOp.op = "prev"
    /\ lastOp.exc = NoExc
    /\ ShowsActive
    /\ patches[selected_patch_index + 1].i = 0

\* C6: after load() on a patch returned, the service having answered with
\* one candidate or more: what was materialized before is destroyed, the
\* variants are exactly the candidates of the answer, the active index is 0
\* and the first candidate is materialized.
C6_LoadInstallsFirst ==
    \A k \in Posts :
      (trace[k][4].status = "ok" /\ trace[k][4].n > 0 /\ lastOp.exc = NoExc) =>
        /\ PatchesOf(trace[k][2]) # {}
        /\ \A p \in PatchesOf(trace[k][2]) :
             LET eps == patches[p].expanded_patterns
             IN  /\ Len(eps) = trace[k][4].n
                 /\ \A v \in 1..Len(eps) :
                      LET want == ServicePattern(trace[k][3], v)
                      IN  /\ eps[v].faces = want.faces
                          /\ eps[v].verts = want.verts
                          /\ eps[v].sides = want.sides
                 /\ patches[p].i = 0
                 /\ MaterializedOf(p) = {1}
                 /\ Len(eps[1].drawn_verts) = Len(eps[1].verts)
                 /\ Len(eps[1].drawn_faces) = Len(eps[1].faces)
                 /\ Range(eps[1].drawn_faces) \subseteq DOMAIN bmfaces
                 /\ Range(eps[1].drawn_verts) \subseteq bmverts
        /\ NothingLeft

\* a reload that replaced a shown variant: change_subdivisions on a built
\* patch, the service answering with two candidates
C6_Reloaded ==
    /\ lastOp.op = "change_subdivisions"
    /\ lastOp.exc = NoExc
    /\ Resubdivisions # {}
    /\ \E k \in Posts : trace[k][4].status = "ok" /\ trace[k][4].n = 2
    /\ \E p \in 1..Len(patches) : patches[p].i = 0 /\ MaterializedOf(p) = {1}

\* every change_subdivisions call that changed a side of a patch and then
\* returned, or failed in the service call itself, had asked the service in
\* the same call for the variants of that patch's boundary as the call left
\* it (a call can also fail earlier, in the destroy of a variant that an
\* earlier failed reload left half drawn)
ReloadIssued ==
    (lastOp.op = "change_subdivisions"
       /\ lastOp.exc \in {NoExc, "ConnectionError", "ValueError"}) =>
      \A a \in Resubdivisions :
        \A p \in 1..Len(patches) :
          trace[a][2] \in Range(patches[p].sides) =>
            \E b \in Posts :
              /\ b > a
              /\ trace[b][2] = patches[p].sides
              /\ trace[b][3] = Boundary(patches[p].sides)

\* C7: every change_subdivisions call that changes a side, or two sides, of
\* a patch is followed in the same call by a fresh load of that patch, so
\* that no patch keeps variants computed for a boundary it no longer has.
C7_ReloadAfterChange ==
    lastOp.op = "change_subdivisions" =>
      \A a \in Resubdivisions :
        \A p \in 1..Len(patches) :
          trace[a][2] \in Range(patches[p].sides) =>
            /\ \E b \in Posts :
                 /\ b > a
                 /\ trace[b][2] = patches[p].sides
                 /\ trace[b][3] = Boundary(patches[p].sides)
            /\ VariantsCurrent(p)

\* C8: in a call that changes sides and asks the service (the odd-perimeter
\* correction of add_side, the changes of change_subdivisions), the request
\* comes after every change of a side of that call, so that what is sent is
\* the final boundary of a closed patch.
C8_RequestAfterMutations ==
    \A k \in Posts :
      /\ \A m \in (k + 1)..Len(trace) : trace[m][1] \notin {"resubdivide", "ordered"}
      /\ trace[k][3] = Boundary(trace[k][2])
      /\ Chained(trace[k][2])

\* a call that changed a side and then asked the service
C8_ChangedThenAsked ==
    \E a \in Resubdivisions : \E k \in Posts :
      /\ a < k
      /\ trace[a][2] \in Range(trace[k][2])
      /\ trace[a][4] # trace[a][3]

\* C9: when the service answers with an empty list of variants, the patch
\* is made all the same, with its boundary and no fill, and what the artist
\* does with it afterwards (change_subdivisions, select, next, prev) does not
\* raise.
C9_EmptyAnswerIsHarmless ==
    \A k \in Posts :
      (trace[k][4].status = "ok" /\ trace[k][4].n = 0) =>
        /\ lastOp.exc = NoExc
        /\ PatchesOf(trace[k][2]) # {}
        /\ \A p \in PatchesOf(trace[k][2]) :
             /\ patches[p].expanded_patterns = << >>
             /\ \A face \in DOMAIN bmfaces : ~contains_face(World, p, face)
             /\ \A face \in {0} \cup DOMAIN bmfaces :
                  PatchSet_select_patch_from_face(World, face).exc = NoExc
             /\ \A s \in Range(patches[p].sides) : \A add \in BOOLEAN :
                  PatchSet_change_subdivisions(World, <<s>>, add, NoResponse).exc = NoExc
             /\ selected_patch_index = p - 1 =>
                  /\ PatchSet_next(World).exc = NoExc
                  /\ PatchSet_prev(World).exc = NoExc

\* C10: a request the service does not answer, or answers with what is no
\* list of variants, is recovered from in the call: the call returns, and
\* the patch stands in the PatchSet with its boundary and no variants.
C10_FailureRecovered ==
    \A k \in Posts :
      trace[k][4].status # "ok" =>
        /\ lastOp.exc = NoExc
        /\ PatchesOf(trace[k][2]) # {}
        /\ \A p \in PatchesOf(trace[k][2]) : patches[p].expanded_patterns = << >>

\* the last call was Side.change_subdivisions, made on a side of call.verts
SideChanged ==
    /\ call.fn = "Side.change_subdivisions"
    /\ lastOp.op = "Side.change_subdivisions"

\* C11: Side.change_subdivisions with len(verts) + delta < 2 is a silent
\* no-op: it raises nothing, the side keeps its vertex sequence, and no
\* vertex or edge of the mesh is created or deleted.
C11_BelowMinimumNoOp ==
    (SideChanged /\ Len(call.verts) + call.change_by < 2) =>
      /\ result.exc = NoExc
      /\ sides[call.side] = call.verts
      /\ bmverts = call.bmverts
      /\ bmedges = call.bmedges

\* a side of 3 vertices asked to give up 2 of them
C11_Refused ==
    /\ SideChanged
    /\ Len(call.verts) = 3
    /\ call.change_by = -2
    /\ call.verts[2] \in bmverts

\* what C12 says of a call that changed the side
ResubdividedExactly ==
    LET old == call.verts
        new == sides[call.side]
    IN  /\ Len(new) = Len(old) + call.change_by
        /\ new[1] = old[1]
        /\ new[Len(new)] = old[Len(old)]
        /\ \A i \in 2..(Len(new) - 1) : new[i] \notin call.bmverts /\ new[i] \in bmverts
        /\ \A i \in 2..(Len(old) - 1) : old[i] \notin bmverts

\* C12: Side.change_subdivisions with len(verts) + delta >= 2 leaves the
\* side with exactly len(verts) + delta vertices, keeps its first and its
\* last vertex, makes every interior vertex a newly created one, and deletes
\* every old interior vertex from the mesh.
C12_ResubdividedExactly ==
    (SideChanged /\ Len(call.verts) + call.change_by >= 2) => ResubdividedExactly

\* The same for the sides of positive length: those whose vertices do not
\* all lie on one point.
ResubdividedWhenLong ==
    (SideChanged /\ Len(call.verts) + call.change_by >= 2
       /\ \E i \in 1..Len(call.points) : call.points[i] # call.points[1]) =>
      ResubdividedExactly

\* restroke was called, on a polyline of positive total length
Restroked ==
    /\ call.fn = "restroke"
    /\ result.done
    /\ \E i \in 1..Len(call.stroke) : call.stroke[i] # call.stroke[1]

\* the fractions of the call are in ascending order
Ascending == \A i \in 1..(Len(call.nums) - 1) : call.nums[i] <= call.nums[i + 1]

\* C13: for every polyline of at least 2 points and positive total length,
\* and every list of fractions, sorted or not, distinct or not, restroke
\* returns as many points as there are fractions.
C13_OnePointPerFraction ==
    Restroked => Len(result.value) = Len(call.nums)

\* The same for the lists of fractions that are in ascending order.
OnePointPerAscendingFraction ==
    (Restroked /\ Ascending) => Len(result.value) = Len(call.nums)

\* C14: for every polyline of at least 2 points and positive total length,
\* with or without zero-length segments, restroke(polyline, [0, 1]) returns
\* exactly [polyline[0], polyline[-1]].
C14_EndsForZeroAndOne ==
    (Restroked /\ call.nums = <<0, call.den>>) =>
      result.value = <<call.stroke[1], call.stroke[Len(call.stroke)]>>

\* The same for the polylines whose segments are of like length: no segment
\* a million times as long as what follows it.
EndsForZeroAndOneWhenNear ==
    (Restroked /\ call.nums = <<0, call.den>>
       /\ \A i \in 1..Len(call.stroke) : call.stroke[i] <= 1) =>
      result.value = <<call.stroke[1], call.stroke[Len(call.stroke)]>>

\* the vertices that the edges of E join to v, v among them
RECURSIVE Joined(_, _)
Joined(S, E) ==
    LET more == S \cup UNION {e \in E : e \cap S # {}}
    IN  IF more = S THEN S ELSE Joined(more, E)

\* e lies on a cycle of E: its ends are joined without it
OnCycle(e, E) == e \subseteq Joined({CHOOSE v \in e : TRUE}, E \ {e})

\* E is made of simple cycles, and of edges on no cycle: no vertex is on
\* more than 2 edges that lie on a cycle
SimpleCycles(E) ==
    \A v \in UNION E : Cardinality({e \in E : v \in e /\ OnCycle(e, E)}) <= 2

\* where a walk over the edges l, started at v, ends; 0 when it breaks off
RECURSIVE WalkEnd(_, _)
WalkEnd(l, v) ==
    IF l = <<>> THEN v
    ELSE IF v \notin l[1] THEN 0
    ELSE WalkEnd(Tail(l), other_vert(l[1], v))

\* walking the edges l returns to the vertex the walk started at
ClosedWalk(l) == l # <<>> /\ \E v \in l[1] : WalkEnd(l, v) = v

\* at how many places of the emitted cycles the edge e appears
Emitted(e) ==
    Cardinality({<<c, n>> \in (1..Len(result.value)) \X (1..MaxEdges) :
                   n <= Len(result.value[c]) /\ result.value[c][n] = e})

\* find_edge_cycles was called on a set of simple cycles and other edges
CyclesFound ==
    /\ call.fn = "find_edge_cycles"
    /\ result.done
    /\ SimpleCycles(call.edges)

\* C15: for every edge set made of simple cycles, and possibly of edges on
\* no cycle, every edge of the set is in exactly one cycle that
\* find_edge_cycles emits, or in none and then it lies on no cycle; and every
\* cycle emitted is closed.
C15_CyclesPartition ==
    CyclesFound =>
      /\ \A e \in call.edges : Emitted(e) <= 1 /\ (Emitted(e) = 0 => ~OnCycle(e, call.edges))
      /\ \A c \in 1..Len(result.value) :
           ClosedWalk(result.value[c]) /\ Range(result.value[c]) \subseteq call.edges

\* two cycles emitted, and an edge that is on neither
C15_TwoCyclesAndABridge ==
    /\ CyclesFound
    /\ Len(result.value) = 2
    /\ \E e \in call.edges : Emitted(e) = 0

\* Side.merge was called, both ways
Merged == call.fn = "Side.merge" /\ result.done

\* C16: for any two sides A and B that share an endpoint, merging B into A
\* and merging A into B give sides with the same vertex set, the union of
\* the vertices of A and of B.
C16_MergeCommutes ==
    (Merged /\ shares_endpoint_with(call.A, call.B)) =>
      /\ result.value.ab.exc = NoExc
      /\ result.value.ba.exc = NoExc
      /\ Range(result.value.ab.self) = Range(call.A) \cup Range(call.B)
      /\ Range(result.value.ba.self) = Range(call.A) \cup Range(call.B)

\* two sides of 3 vertices that meet at the end of the one and the start of
\* the other, merged into 5 vertices
C16_JoinedEndToStart ==
    /\ Merged
    /\ Len(call.A) = 3 /\ Len(call.B) = 3
    /\ call.A[3] = call.B[1]
    /\ Cardinality(Range(call.A) \cup Range(call.B)) = MergeVerts
    /\ Len(result.value.ab.self) = 5

\* C17: Side.merge on two sides that share no endpoint fails with an
\* assertion, and leaves the vertex sequences of both sides as they were.
C17_MergeApartAsserts ==
    (Merged /\ ~shares_endpoint_with(call.A, call.B)) =>
      /\ result.value.ab.exc = "AssertionError"
      /\ result.value.ab.self = call.A
      /\ result.value.ab.other = call.B
      /\ result.value.ba.exc = "AssertionError"
      /\ result.value.ba.self = call.B
      /\ result.value.ba.other = call.A

\* two sides that touch in the middle of one of them, but at no endpoint
C17_TouchingMidSide ==
    /\ Merged
    /\ ~shares_endpoint_with(call.A, call.B)
    /\ Len(call.A) = 3
    /\ call.A[2] = call.B[1]
    /\ result.value.ab.exc # NoExc

\* walk_to_corner was called
Walked == call.fn = "walk_to_corner" /\ result.done

\* the non-manifold edges of the mesh
BoundaryEdges == {e \in call.mesh : e \notin call.manifold}

\* a path of non-manifold edges leads from from_vert to a vertex of to_edges
CornerInReach ==
    (Joined({call.from_vert}, BoundaryEdges) \ {call.from_vert}) \cap UNION call.to_edges # {}

\* the edges l are non-manifold and lead, one after the other, from
\* from_vert to a vertex of to_edges
LeadsToCorner(l) ==
    /\ l # <<>>
    /\ Range(l) \subseteq BoundaryEdges
    /\ WalkEnd(l, call.from_vert) \in UNION call.to_edges

\* C18: walk_to_corner returns a contiguous path of non-manifold edges,
\* ordered from from_vert to the corner: its first edge is at from_vert and
\* its last edge reaches a vertex of to_edges; it returns None exactly when
\* there is no such path.
C18_PathFromVertToCorner ==
    Walked =>
      /\ result.value.none <=> ~CornerInReach
      /\ ~result.value.none => LeadsToCorner(result.value.walk)

\* What holds instead: the edges returned, read from the last to the first,
\* lead from from_vert to the corner.
PathFromCornerToVert ==
    Walked =>
      /\ result.value.none <=> ~CornerInReach
      /\ ~result.value.none => LeadsToCorner(Reversed(result.value.walk))

\* the two ends of the side added by the step
NewEnds == {sides'[Len(sides')][1], sides'[Len(sides')][Len(sides'[Len(sides')])]}

\* the number of the pending sides that end at v
Incidence(v) == Cardinality({n \in 1..Len(current_sides) : v \in Ends(current_sides[n])})

\* the sides pending form an open patch that can take the new side: each of
\* its ends meets at most one of them, and one of its ends meets one
CanAddSide ==
    /\ current_sides # <<>>
    /\ \A v \in NewEnds : Incidence(v) <= 1
    /\ \E v \in NewEnds : Incidence(v) = 1

\* the new side is a chord of the p-th patch: each of its ends lies on a
\* side of the patch
IsSplitBy(p) ==
    \A v \in NewEnds :
      \E n \in 1..Len(patches[p].sides) : v \in Range(sides[patches[p].sides[n]])

\* the new side went to the sides pending, or closed a patch with them
Extended ==
    \/ current_sides' = Append(current_sides, Len(sides')) /\ patches' = patches
    \/ /\ current_sides' = <<>>
       /\ Len(patches') = Len(patches) + 1
       /\ Range(patches'[Len(patches')].sides) = Range(current_sides) \cup {Len(sides')}
       /\ \A p \in 1..Len(patches) : patches'[p].sides = patches[p].sides

\* the p-th patch gave way to two patches that both have the new side
SplitInTwo(p) ==
    /\ Len(patches') = Len(patches) + 1
    /\ current_sides' = current_sides
    /\ Cardinality({q \in 1..Len(patches') :
                      Len(sides') \in Range(patches'[q].sides)}) = 2
    /\ \A q \in 1..Len(patches') :
         patches'[q].sides = patches[p].sides => Len(sides') \in Range(patches'[q].sides)

\* the new side is the one side of a patch just begun
StartedNew == current_sides' = <<Len(sides')>> /\ patches' = patches

\* a step of add_side
AddsSide == lastOp'.op = "add_side" /\ Len(sides') = Len(sides) + 1

\* C19: every call of add_side does one of three things, the first that
\* applies: it extends or closes the patch that can take the side; or else
\* it splits a closed patch that the side crosses as a chord; or else it
\* begins a patch that has the side alone
C19_OneCaseInOrder ==
    [][AddsSide =>
         IF CanAddSide THEN Extended
         ELSE IF \E p \in 1..Len(patches) : IsSplitBy(p)
              THEN \E p \in 1..Len(patches) : IsSplitBy(p) /\ SplitInTwo(p)
              ELSE StartedNew]_vars

\* the same of the calls that return, with a side that touches the sides
\* pending or with none pending and no patch under the side, the fourth
\* side being one that closes a quadrilateral
OneCaseWhenTouching ==
    [][(AddsSide /\ lastOp'.exc = NoExc
          /\ (Len(current_sides) < 3 \/ QuadLoop')
          /\ (CanAddSide \/ (current_sides = <<>> /\ \A p \in 1..Len(patches) : ~IsSplitBy(p)))) =>
         IF CanAddSide THEN Extended ELSE StartedNew]_vars

\* the ends of the sides ps, each as often as it is an end
EndCount(ps, v) == Cardinality({n \in 1..Len(ps) : v \in Ends(ps[n])})

\* the sides ps close: each end of each of them is the end of two
Closed(ps) == \A n \in 1..Len(ps) : \A v \in Ends(ps[n]) : EndCount(ps, v) = 2

\* the vertices of the sides ps
VertsOf(ps) == UNION {Range(sides[ps[n]]) : n \in 1..Len(ps)}

\* the last call added a chord between the middles of the n-th side and of
\* the side opposite it of the quad ps, as they were before the call
MidChord(ps, n) ==
    LET a == call.sides[ps[n]]
        b == call.sides[ps[((n + 1) % 4) + 1]]
    IN  /\ Len(ps) = 4
        /\ \A j \in 1..4 : a[Len(a)] = call.sides[ps[(j % 4) + 1]][1] \/ j # n
        /\ Len(a) = 3 /\ Len(b) = 3
        /\ call.verts = <<a[2], b[2]>>

ChordDrawn == call.fn = "add_side" /\ lastOp.op = "add_side" /\ call.side = Len(sides)

\* C20: a chord added between the middles of two opposite sides of a closed
\* quad patch replaces the patch by exactly 2 patches, both closed, that
\* both have the chord and whose sides have, together, the vertices of the
\* boundary of the quad
C20_ChordSplitsQuad ==
    ChordDrawn =>
      \A p \in 1..Len(call.patches) : \A n \in 1..4 :
        MidChord(call.patches[p], n) =>
          /\ Len(patches) = Len(call.patches) + 1
          /\ \E q \in 1..Len(patches), r \in 1..Len(patches) :
               /\ q # r
               /\ \A o \in 1..Len(patches) :
                    o \in {q, r} \/ \E m \in 1..Len(call.patches) :
                                      m # p /\ patches[o].sides = call.patches[m]
               /\ Closed(patches[q].sides) /\ Closed(patches[r].sides)
               /\ call.side \in Range(patches[q].sides) \cap Range(patches[r].sides)
               /\ VertsOf(patches[q].sides) \cup VertsOf(patches[r].sides)
                    = UNION {Range(call.sides[call.patches[p][m]]) :
                               m \in 1..Len(call.patches[p])}

\* such a chord is drawn, and the call returns
ChordBetweenMiddles ==
    /\ ChordDrawn
    /\ lastOp.exc = NoExc
    /\ \E p \in 1..Len(call.patches) : \E n \in 1..4 : MidChord(call.patches[p], n)

\* the chord goes to the sides pending and the patch stays
ChordLeftPending ==
    ChordBetweenMiddles =>
      /\ current_sides = Append(call.current_sides, call.side)
      /\ [p \in 1..Len(patches) |-> patches[p].sides] = call.patches

\* how often v is an end of one of the sides ps, a side that starts and ends
\* at v counting twice
Incidences(ps, v) ==
    SumSeq([n \in 1..Len(ps) |->
              (IF First(ps[n]) = v THEN 1 ELSE 0) + (IF Last(ps[n]) = v THEN 1 ELSE 0)])

\* the closure condition: each end of each of the sides ps is an end 2 times
ClosureCondition(ps) ==
    \A n \in 1..Len(ps) : \A v \in Ends(ps[n]) : Incidences(ps, v) = 2

\* C23: every patch the PatchSet holds satisfies the closure condition, each
\* end of each of its sides being a side end exactly 2 times over the sides
\* of the patch; no sides are made a patch that do not satisfy it
C23_PatchesSatisfyClosure ==
    \A p \in 1..Len(patches) : ClosureCondition(patches[p].sides)

\* the same of the patches made of sides that run around a quadrilateral
ClosureOfQuadLoops ==
    QuadLoop => \A p \in 1..Len(patches) : ClosureCondition(patches[p].sides)

\* the mesh of w holds no face and no vertex beyond the corners, the sides
\* and what the materialized variants drew
NothingLeftIn(w) ==
    /\ DOMAIN w.bmfaces \subseteq RefFaces(w)
    /\ w.bmverts \subseteq (1..NCorners) \cup RefVerts(w)

\* the selected patch has a variant or more and its active one, and no
\* other, is materialized
ShowsOne ==
    /\ selected_patch_index \in 0..(Len(patches) - 1)
    /\ patches[selected_patch_index + 1].i >= 0
    /\ patches[selected_patch_index + 1].i < Len(patches[selected_patch_index + 1].expanded_patterns)
    /\ MaterializedOf(selected_patch_index + 1) = {patches[selected_patch_index + 1].i + 1}
    /\ Complete(patches[selected_patch_index + 1].expanded_patterns[
                   patches[selected_patch_index + 1].i + 1])

\* the call that leaves w returned with the selected patch at the index it
\* had, that variant and no other materialized in full, and nothing of what
\* was drawn before left in the mesh
SameVariantAgain(w) ==
    LET p == selected_patch_index + 1
        pt == w.patches[p]
    IN  /\ w.exc = NoExc
        /\ pt.i = patches[p].i
        /\ {k \in 1..Len(pt.expanded_patterns) : Materialized(pt.expanded_patterns[k])}
             = {pt.i + 1}
        /\ Complete(pt.expanded_patterns[pt.i + 1])
        /\ Range(pt.expanded_patterns[pt.i + 1].drawn_faces) \subseteq DOMAIN w.bmfaces
        /\ Range(pt.expanded_patterns[pt.i + 1].drawn_verts) \subseteq w.bmverts
        /\ NothingLeftIn(w)

\* the destroy that begins change leaves the active variant of the selected
\* patch with nothing drawn
ActiveDestroyed ==
    LET p == selected_patch_index + 1
        d == destroy([w |-> World, self |-> patches[p]], patches[p].i + 1)
    IN  /\ d.w.exc = NoExc
        /\ ~Materialized(d.self.expanded_patterns[patches[p].i + 1])
        /\ Range(patches[p].expanded_patterns[patches[p].i + 1].drawn_faces)
             \cap DOMAIN d.w.bmfaces = {}

\* C24: next() and prev() clamp at the ends and never wrap: next() on the
\* last variant and prev() on the first leave the active index as it was,
\* destroy the variant shown and materialize the same variant again, so that
\* exactly one variant is materialized afterwards
C24_ClampAtEnds ==
    ShowsOne =>
      LET pt == patches[selected_patch_index + 1]
      IN  /\ pt.i = Len(pt.expanded_patterns) - 1 =>
               ActiveDestroyed /\ SameVariantAgain(PatchSet_next(World))
          /\ pt.i = 0 =>
               ActiveDestroyed /\ SameVariantAgain(PatchSet_prev(World))

\* next() was called on a patch of two variants and the last one is shown:
\* a further next() is one at the end
C24_NextOnLast ==
    /\ lastOp.op = "next"
    /\ lastOp.exc = NoExc
    /\ ShowsOne
    /\ Len(patches[selected_patch_index + 1].expanded_patterns) = 2
    /\ patches[selected_patch_index + 1].i = 1

\* the variant pat maps its vertex index i to a position of the boundary
OnBoundary(pat, i) ==
    \E j \in 1..Len(pat.sides) : \E k \in 1..Len(pat.sides[j]) : pat.sides[j][k] = i

\* variant k of patch p, with nothing of the patch drawn, is drawn and then
\* destroyed: c0 before the draw, c1 after it, c2 after the destroy
DrawThenDestroy(p, k) ==
    LET c == [w |-> World, self |-> patches[p]]
        at == PyIndex(Len(patches[p].expanded_patterns), patches[p].i)
        c0 == IF patches[p].i # -1 /\ at # 0 THEN destroy(c, at) ELSE c
        c1 == draw(c0, k)
    IN  [c0 |-> c0, c1 |-> c1, c2 |-> destroy(c1, k)]

\* C25: materializing a variant makes a new mesh vertex for the vertex
\* indices the side mapping maps to no boundary position, and only for
\* those, and takes the patch's boundary vertex for every index it maps;
\* destroying the variant deletes the vertices it made and no other, so that
\* draw and then destroy leave the vertices of the mesh as they were
C25_DrawReusesBoundary ==
    \A p \in 1..Len(patches) : \A k \in 1..Len(patches[p].expanded_patterns) :
      LET d == DrawThenDestroy(p, k)
          pat == d.c1.self.expanded_patterns[k]
          inner == {i \in 0..(Len(pat.verts) - 1) : ~OnBoundary(pat, i)}
          made == {pat.drawn_verts[i + 1] : i \in inner}
      IN  (d.c0.w.exc = NoExc /\ d.c1.w.exc = NoExc /\ ~d.c1.w.oom) =>
            /\ Len(pat.drawn_verts) = Len(pat.verts)
            /\ \A i \in 0..(Len(pat.verts) - 1) :
                 OnBoundary(pat, i) =>
                   \E j \in 1..Len(pat.sides) : \E n \in 1..Len(pat.sides[j]) :
                     /\ pat.sides[j][n] = i
                     /\ pat.drawn_verts[i + 1] = sides[patches[p].sides[j]][n]
            /\ Cardinality(made) = Cardinality(inner)
            /\ made \cap d.c0.w.bmverts = {}
            /\ d.c1.w.bmverts = d.c0.w.bmverts \cup made
            /\ d.c2.w.exc = NoExc
            /\ d.c1.w.bmverts \ d.c2.w.bmverts = made
            /\ d.c2.w.bmverts = d.c0.w.bmverts

\* a variant is shown that has a vertex of its own and vertices of the
\* boundary
C25_InteriorAndBoundaryDrawn ==
    /\ lastOp.exc = NoExc
    /\ \E p \in 1..Len(patches) :
         /\ patches[p].i >= 0
         /\ patches[p].i < Len(patches[p].expanded_patterns)
         /\ LET pat == patches[p].expanded_patterns[patches[p].i + 1]
                bound == UNION {Range(sides[patches[p].sides[j]]) :
                                  j \in 1..Len(patches[p].sides)}
            IN  /\ Complete(pat)
                /\ Range(pat.drawn_verts) \cap bound # {}
                /\ Range(pat.drawn_verts) \ bound # {}
                /\ Range(pat.drawn_verts) \subseteq bmverts

\* C26: ordering the sides chains them start to end and, when no remaining
\* side continues the chain, gives back the part ordered so far instead of
\* failing; the sides not placed in the chain are not lost
C26_OrderKeepsSides ==
    lastOp.op = "add_side" =>
      /\ lastOp.exc # "AssertionError"
      /\ lastOp.exc = NoExc => \A s \in 1..Len(sides) : s \in HeldSides

\* the chain found is one that runs start to end and closes, whenever the
\* ordering does not fail
OrderedSidesChain ==
    \A k \in Orderings : Chained(trace[k][2])

\* the vertices of the sides ps, those at which two sides meet counted for
\* both
Perimeter(ps) == SumSeq([j \in 1..Len(ps) |-> Len(sides[ps[j]])])

\* the same before the last call
PerimeterBefore(ps) == SumSeq([j \in 1..Len(ps) |-> Len(sides[ps[j]]) - Delta(ps[j])])

\* C29: a patch whose sides hold an even number of vertices in total holds
\* an even number after every change_subdivisions call on its sides, one
\* side changed by 2 or two sides by 1 each, also when a decrease is refused
\* for a side that is at 2 vertices
C29_EvenStaysEven ==
    lastOp.op = "change_subdivisions" =>
      \A p \in 1..Len(patches) :
        PerimeterBefore(patches[p].sides) % 2 = 0 => Perimeter(patches[p].sides) % 2 = 0

\* the same of the calls on sides that had 3 vertices or more, at more than
\* one position
EvenStaysEvenOnLongSides ==
    lastOp.op = "change_subdivisions" =>
      \A p \in 1..Len(patches) :
        (/\ PerimeterBefore(patches[p].sides) % 2 = 0
         /\ \A k \in Resubdivisions : trace[k][3] >= 3 /\ co[First(trace[k][2])] # co[Last(trace[k][2])]
         /\ Cardinality(Resubdivisions) \in {0, 2}
               \/ \E k \in Resubdivisions : trace[k][4] - trace[k][3] \in {2, -2})
          => Perimeter(patches[p].sides) % 2 = 0

\* C30: in every state that load, next, prev and change_subdivisions lead
\* to, the active index of a patch is -1 exactly when the patch has no
\* variant; otherwise it is an index of a variant, and the variant at it is
\* the one materialized
C30_ActiveIndexConsistent ==
    \A p \in 1..Len(patches) :
      /\ patches[p].i = -1 <=> patches[p].expanded_patterns = << >>
      /\ patches[p].expanded_patterns # << >> =>
           /\ 0 <= patches[p].i
           /\ patches[p].i < Len(patches[p].expanded_patterns)
           /\ MaterializedOf(p) = {patches[p].i + 1}

\* the part of it that speaks of the index alone
ActiveIndexInRange ==
    \A p \in 1..Len(patches) :
      /\ patches[p].i = -1 <=> patches[p].expanded_patterns = << >>
      /\ patches[p].expanded_patterns # << >> =>
           0 <= patches[p].i /\ patches[p].i < Len(patches[p].expanded_patterns)

\* multiple_from_edges was called and is back
SidesMade == call.fn = "Side.multiple_from_edges" /\ result.done

\* C27: Side.multiple_from_edges terminates for every set of edges, and the
\* sides it returns are maximal: no two of them share an endpoint, and their
\* vertices are, together, the vertices of the edges passed
C27_MaximalSides ==
    SidesMade =>
      /\ result.exc = NoExc
      /\ \A a \in 1..Len(result.value), b \in 1..Len(result.value) :
           a # b => ~shares_endpoint_with(result.value[a], result.value[b])
      /\ UNION {Range(result.value[a]) : a \in 1..Len(result.value)}
           = UNION {Range(call.edges[n]) : n \in 1..Len(call.edges)}

\* three edges came back as one side of 4 vertices, though the first two
\* listed shared no endpoint: the third joined them
C27_ThreeEdgesOneSide ==
    /\ SidesMade
    /\ Len(call.edges) = 3
    /\ Len(result.value) = 1
    /\ Len(result.value[1]) = 4
    /\ ~shares_endpoint_with(from_edges(<<call.edges[1]>>), from_edges(<<call.edges[2]>>))

\* no vertex is twice in the list l
Simple(l) == \A a \in 1..Len(l), b \in 1..Len(l) : a # b => l[a] # l[b]

\* C28: every Side is a simple path of 2 vertices or more: no vertex is
\* twice in its vertex list, after it is made from edges and after any merge
C28_SidesAreSimplePaths ==
    SidesMade =>
      \A a \in 1..Len(result.value) :
        Len(result.value[a]) >= 2 /\ Simple(result.value[a])

\* the number of the edges passed that are at v
EdgeDegree(v) == Cardinality({n \in 1..Len(call.edges) : v \in Range(call.edges[n])})

\* the same of the sides made of edges that form paths apart from each
\* other: no vertex is on 3 of the edges, and the edges close no cycle
SimpleWhenPathsApart ==
    (/\ SidesMade
     /\ \A v \in 1..EdgeVerts : EdgeDegree(v) <= 2
     /\ \A n \in 1..Len(call.edges) :
          call.edges[n][2] \notin
            Joined({call.edges[n][1]},
                   {Range(call.edges[m]) : m \in (1..Len(call.edges)) \ {n}})) =>
      \A a \in 1..Len(result.value) :
        Len(result.value[a]) >= 2 /\ Simple(result.value[a])

\* the places of the events called name in the trace of the last call
Events(name) == {k \in 1..Len(trace) : trace[k][1] = name}

ScopeReleasedWithOneUpdate ==
    /\ \A d \in Events("defer") :
         \E r \in Events("release") :
           /\ d < r
           /\ \A k \in (d + 1)..(r - 1) : trace[k][1] # "update"
           /\ Cardinality({k \in Events("update") : k > r}) = 1
    /\ Events("defer") # {} => ~autofill.defer_recomputing
    /\ autofill.defer_recomputing => Events("update") = {}

\* a finished stroke left the scope by an exception
ScopeLeftByException ==
    lastOp.op = "stroke" /\ lastOp.exc # NoExc /\ Events("release") # {}

\* the last call was a finished stroke that was abandoned as degenerate: of
\* fewer than 2 points, or resampled to too few points
Degenerate ==
    /\ lastOp.op = "stroke"
    /\ trace[1][3]
    /\ Events("defer") = {}

\* C22: a degenerate finished stroke is abandoned, the artist is notified,
\* and the PatchSet, the host mesh, replay and strip_crosses are as they
\* were before the stroke
C22_DegenerateStrokeIsNoOp ==
    [][Degenerate' =>
         /\ \E k \in 1..Len(trace') : trace'[k][1] = "alert_user"
         /\ UNCHANGED <<bmverts, co, bmedges, bmfaces, sides, current_sides,
                        patches, selected_patch_index>>
         /\ autofill'.replay = autofill.replay
         /\ autofill'.strip_crosses = autofill.strip_crosses]_vars

\* a degenerate stroke leaves the PatchSet and the host mesh as they were
DegenerateKeepsMeshAndPatches ==
    [][Degenerate' =>
         UNCHANGED <<bmverts, co, bmedges, bmfaces, sides, current_sides,
                     patches, selected_patch_index>>]_vars

\* a stroke of fewer than 2 points leaves every field of the tool as it was
ShortStrokeKeepsTool ==
    [][(Degenerate' /\ Len(trace'[1][2]) < 2) => UNCHANGED autofill]_vars

\* the last call was AutofillPatches.change_subdivisions with two sides
PairChanged ==
    call.fn = "change_subdivisions" /\ result.done /\ lastOp.op = "change_subdivisions"

\* the side x was in the p-th patch when the call was made (Side.__eq__)
InPatch(x, p) ==
    \E n \in 1..Len(call.patches[p]) :
      Range(call.sides[x]) = Range(call.sides[call.patches[p][n]])

\* the patches that held both sides when the call was made
HoldersOfBoth ==
    {p \in 1..Len(call.patches) : InPatch(call.args[1], p) /\ InPatch(call.args[2], p)}

\* the vertices of no side were changed by the call
NoSideChanged == sides = call.sides

\* the two sides were changed by 1 and the p-th patch was reloaded
BothChangedAndReloaded(p) ==
    /\ \A n \in 1..2 :
         Len(sides[call.args[n]])
           = Len(call.sides[call.args[n]]) + (IF call.add THEN 1 ELSE -1)
    /\ \E k \in Posts : trace[k][2] = call.patches[p]

\* C31: change_subdivisions of two sides that are not both in one patch
\* changes no side, reloads nothing and leaves the selection; of two sides
\* that are both in some patch it changes both by 1 and reloads that patch,
\* wherever the patch is in the list
C31_PairOfOnePatchOnly ==
    PairChanged =>
      /\ HoldersOfBoth = {} =>
           /\ NoSideChanged
           /\ Posts = {}
           /\ selected_patch_index = call.selected_patch_index
      /\ HoldersOfBoth # {} => \E p \in HoldersOfBoth : BothChangedAndReloaded(p)

\* the first half of it: two sides that are not both in one patch
PairApartChangesNothing ==
    (PairChanged /\ HoldersOfBoth = {}) =>
      /\ NoSideChanged
      /\ Posts = {}
      /\ selected_patch_index = call.selected_patch_index

\* the first patch of the list that held the first side given
FirstHolder == Min({p \in 1..Len(call.patches) : InPatch(call.args[1], p)})

\* the ends of the side x lay apart when the call was made
EndsApart(x) == co[call.sides[x][1]] # co[call.sides[x][Len(call.sides[x])]]

\* a pending side had the vertices of the first side given
PendingTwin ==
    \E n \in 1..Len(call.current_sides) :
      Range(call.sides[call.current_sides[n]]) = Range(call.sides[call.args[1]])

\* the second half of it, of two sides to which a vertex is added, whose
\* ends lie apart, both sides of the first patch that holds the first of
\* them, and with no pending side of the same vertices
PairOfFirstHolderGrows ==
    (/\ PairChanged
     /\ HoldersOfBoth # {}
     /\ ~PendingTwin
     /\ \A n \in 1..2 : call.args[n] \in Range(call.patches[FirstHolder])
     /\ FirstHolder \in HoldersOfBoth
     /\ call.add
     /\ EndsApart(call.args[1]) /\ EndsApart(call.args[2])) =>
      BothChangedAndReloaded(FirstHolder)

\* both sides given were sides of the second patch, the first of them with
\* the vertices of a side of the first patch, and the call changed nothing
PairOfSecondPatchIgnored ==
    /\ PairChanged
    /\ Len(call.patches) = 2
    /\ call.args[1] \in Range(call.patches[2])
    /\ call.args[2] \in Range(call.patches[2])
    /\ 1 \notin HoldersOfBoth
    /\ NoSideChanged
    /\ Posts = {}

\* C32: whenever the tool is in state 'main', also after a move left by the
\* confirm key, by the release of the action button or by cancel, the flag
\* defer_recomputing is False, and update and update_target are not
\* suppressed
C32_MainIsNotDeferred ==
    autofill.state = "main" =>
      /\ ~autofill.defer_recomputing
      /\ update(World).trace = <<<<"update">>>>
      /\ update_target(World).autofill.just_created = FALSE

\* a move begun by dragging was left by the release of the action button
C32_MoveLeftByRelease ==
    /\ lastOp.op = "move"
    /\ trace = <<<<"move", "action">>>>
    /\ autofill.state = "main"
    /\ autofill.move_done_released = "action"

\* a move begun with the grab key was left by the confirm key
MoveLeftByConfirm ==
    /\ lastOp.op = "move"
    /\ trace = <<<<"move", "confirm">>>>
    /\ autofill.state = "main"

\* a move was left by cancel
MoveLeftByCancel ==
    /\ lastOp.op = "move"
    /\ trace = <<<<"undo_cancel">>, <<"move", "cancel">>>>
    /\ autofill.state = "main"

====
